---- MODULE Spec2Model ----
(***************************************************************************)
(* A model of vocaaudio's entry extraction: the parse cascade of           *)
(* pdf_parser.py (parse_vocab_simple, parse_ocr_vocab_text,                *)
(* parse_vocab_table), the CSV fallback of load_vocab_from_text and of the *)
(* two UI parse_text_to_vocab functions, and the sort and dedup merge of   *)
(* extract_vocab_with_ocr_table.                                           *)
(*                                                                         *)
(* A Python str is a sequence of code points; a code point is written as   *)
(* the one-character string itself when it is ASCII and as its "U+XXXX"    *)
(* name otherwise.  The regular expressions of the source are written as   *)
(* syntax trees and run by a backtracking matcher that returns the         *)
(* alternatives in the order Python's re module tries them.                *)
(***************************************************************************)
EXTENDS Integers, Sequences, FiniteSets, TLC

(***************************************************************************)
(* Code points and the character classes the source's patterns use.        *)
(***************************************************************************)
LF == "\n"
GA == "U+AC00"
NA == "U+B098"
BOX == "U+25A1"
BALLOT == "U+2610"
BI == "U+BE44"
EO == "U+C5B4"
ISS == "U+C788"
NEUN == "U+B294"

DigitSeq == <<"0", "1", "2", "3", "4", "5", "6", "7", "8", "9">>
\* The most digits int() converts (sys.int_max_str_digits of CPython 3.11 and
\* later), and a run of one more digit "9" than that, written as one element
\* of a string.
IntMaxStrDigits == 4300
NINES == "9{4301}"
Digit == {DigitSeq[k] : k \in 1..10} \cup {NINES}
Lower == {"a", "b", "c", "d", "e", "f", "g", "h", "i", "j", "k", "l", "m",
          "n", "o", "p", "q", "r", "s", "t", "u", "v", "w", "x", "y", "z"}
Upper == {"A", "B", "C", "D", "E", "F", "G", "H", "I", "J", "K", "L", "M",
          "N", "O", "P", "Q", "R", "S", "T", "U", "V", "W", "X", "Y", "Z"}
Alpha == Lower \cup Upper
\* [가-힣]: the Hangul syllables block, of which the inputs use two.
Hangul == {GA, NA, BI, EO, ISS, NEUN}
\* \s of a str pattern, and the characters str.strip() and str.split() drop.
Space == {" ", "\t", LF, "\r", "\f"}
\* \w of a str pattern: alphanumerics of any script and the underscore.
WordChar == Alpha \cup Digit \cup Hangul \cup {"_"}
PosTag == {"a", "v", "n"}
\* [□☐\[\]O] of parse_vocab_simple, [O□☐\[\]oO] of parse_ocr_vocab_text,
\* [□☐\[\]] of parse_vocab_table.
CheckboxO == {BOX, BALLOT, "[", "]", "O"}
CheckboxOo == {"O", BOX, BALLOT, "[", "]", "o"}
CheckboxPlain == {BOX, BALLOT, "[", "]"}

\* Optional values: None, or Some(x).
None == <<>>
Some(x) == <<x>>

(***************************************************************************)
(* Regular expressions as syntax trees.                                    *)
(***************************************************************************)
Chr(S) == [t |-> "chr", s |-> S]
NotChr(S) == [t |-> "nchr", s |-> S]
Cat(rs) == [t |-> "cat", rs |-> rs]
Alt(rs) == [t |-> "alt", rs |-> rs]
Rep(r, min, greedy) == [t |-> "rep", r |-> r, min |-> min, greedy |-> greedy]
Star(r) == Rep(r, 0, TRUE)
Plus(r) == Rep(r, 1, TRUE)
LazyStar(r) == Rep(r, 0, FALSE)
LazyPlus(r) == Rep(r, 1, FALSE)
Opt(r) == Alt(<<r, Cat(<<>>)>>)
Grp(k, r) == [t |-> "grp", k |-> k, r |-> r]
Look(r) == [t |-> "look", r |-> r]
\* ^ (no MULTILINE), $ with MULTILINE, $ without it, \b
Bos == [t |-> "bos"]
EolM == [t |-> "eolm"]
Eos == [t |-> "eos"]
Wb == [t |-> "wb"]
\* . without DOTALL and with it
Dot == NotChr({LF})
DotAll == NotChr({})

NGroups == 3
NoGroups == [k \in 1..NGroups |-> <<0, 0>>]
\* A match in progress: the next position to read and the groups' spans
\* (first position, position after the last).
MState(p, b) == [pos |-> p, beg |-> b, g |-> NoGroups]

IsWord(s, p) == p >= 1 /\ p <= Len(s) /\ s[p] \in WordChar

RECURSIVE M(_, _, _), MCat(_, _, _), MEach(_, _, _), MAlt(_, _, _),
          MRep(_, _, _, _), MRepEach(_, _, _, _)
\* The states in which r can end when started in st on s, in the order a
\* backtracking matcher tries them.
M(r, s, st) ==
  CASE r.t = "chr" ->
         IF st.pos <= Len(s) /\ s[st.pos] \in r.s
           THEN <<[st EXCEPT !.pos = @ + 1]>> ELSE <<>>
    [] r.t = "nchr" ->
         IF st.pos <= Len(s) /\ s[st.pos] \notin r.s
           THEN <<[st EXCEPT !.pos = @ + 1]>> ELSE <<>>
    [] r.t = "cat" -> MCat(r.rs, s, st)
    [] r.t = "alt" -> MAlt(r.rs, s, st)
    [] r.t = "rep" -> MRep(r, s, st, 0)
    [] r.t = "grp" ->
         LET ends == M(r.r, s, st)
         IN [j \in 1..Len(ends) |->
               [ends[j] EXCEPT !.g[r.k] = <<st.pos, ends[j].pos>>]]
    [] r.t = "look" -> IF M(r.r, s, st) # <<>> THEN <<st>> ELSE <<>>
    [] r.t = "bos" -> IF st.pos = 1 THEN <<st>> ELSE <<>>
    [] r.t = "eolm" ->
         IF st.pos = Len(s) + 1 \/ (st.pos <= Len(s) /\ s[st.pos] = LF)
           THEN <<st>> ELSE <<>>
    [] r.t = "eos" ->
         IF st.pos = Len(s) + 1 \/ (st.pos = Len(s) /\ s[st.pos] = LF)
           THEN <<st>> ELSE <<>>
    [] r.t = "wb" ->
         IF IsWord(s, st.pos - 1) # IsWord(s, st.pos) THEN <<st>> ELSE <<>>

MCat(rs, s, st) ==
  IF rs = <<>> THEN <<st>> ELSE MEach(Tail(rs), s, M(Head(rs), s, st))

MEach(rs, s, sts) ==
  IF sts = <<>> THEN <<>>
  ELSE MCat(rs, s, Head(sts)) \o MEach(rs, s, Tail(sts))

MAlt(rs, s, st) ==
  IF rs = <<>> THEN <<>> ELSE M(Head(rs), s, st) \o MAlt(Tail(rs), s, st)

MRep(r, s, st, n) ==
  LET more == MRepEach(r, s, M(r.r, s, st), n + 1)
      here == IF n >= r.min THEN <<st>> ELSE <<>>
  IN IF r.greedy THEN more \o here ELSE here \o more

MRepEach(r, s, sts, n) ==
  IF sts = <<>> THEN <<>>
  ELSE MRep(r, s, Head(sts), n) \o MRepEach(r, s, Tail(sts), n)

\* re.match: the first way r matches at the start of s, or None.
ReMatch(r, s) ==
  LET ends == M(r, s, MState(1, 1)) IN IF ends = <<>> THEN None ELSE Some(ends[1])

RECURSIVE ReSearchFrom(_, _, _)
\* re.search from position p on: the leftmost match, or None.
ReSearchFrom(r, s, p) ==
  IF p > Len(s) + 1 THEN None
  ELSE LET ends == M(r, s, MState(p, p))
       IN IF ends # <<>> THEN Some(ends[1]) ELSE ReSearchFrom(r, s, p + 1)

ReSearch(r, s) == ReSearchFrom(r, s, 1)

RECURSIVE ReFindAllFrom(_, _, _)
\* The non-overlapping matches of r in s, left to right (re.findall,
\* re.sub): after a match the scan resumes where it ended, one further on
\* when it was empty.
ReFindAllFrom(r, s, p) ==
  LET m == ReSearchFrom(r, s, p)
  IN IF m = None THEN <<>>
     ELSE <<m[1]>> \o ReFindAllFrom(r, s,
                         IF m[1].pos = m[1].beg THEN m[1].pos + 1 ELSE m[1].pos)

ReFindAll(r, s) == ReFindAllFrom(r, s, 1)

\* match.group(k)
Group(s, m, k) == SubSeq(s, m.g[k][1], m.g[k][2] - 1)

RECURSIVE SubFrom(_, _, _, _)
SubFrom(ms, repl, s, p) ==
  IF ms = <<>> THEN SubSeq(s, p, Len(s))
  ELSE SubSeq(s, p, Head(ms).beg - 1) \o repl
         \o SubFrom(Tail(ms), repl, s, Head(ms).pos)

\* re.sub(r, repl, s) for a replacement without group references.
ReSub(r, repl, s) == SubFrom(ReFindAll(r, s), repl, s, 1)

(***************************************************************************)
(* The str methods the parsers use.                                        *)
(***************************************************************************)
RECURSIVE LStrip(_)
LStrip(s) == IF s # <<>> /\ Head(s) \in Space THEN LStrip(Tail(s)) ELSE s

RECURSIVE RStrip(_)
RStrip(s) ==
  IF s # <<>> /\ s[Len(s)] \in Space THEN RStrip(SubSeq(s, 1, Len(s) - 1)) ELSE s

\* s.strip()
Strip(s) == RStrip(LStrip(s))

RECURSIVE SplitAt(_, _, _, _)
\* s.split(c, maxsplit): the pieces of s between occurrences of c, cutting
\* at most maxsplit times (-1: no limit).
SplitAt(s, c, maxsplit, piece) ==
  IF s = <<>> THEN <<piece>>
  ELSE IF Head(s) = c /\ maxsplit # 0
         THEN <<piece>> \o SplitAt(Tail(s), c, maxsplit - 1, <<>>)
         ELSE SplitAt(Tail(s), c, maxsplit, Append(piece, Head(s)))

Split(s, c, maxsplit) == SplitAt(s, c, maxsplit, <<>>)

RECURSIVE SplitWsAt(_, _)
\* s.split(): the maximal runs of non-whitespace characters.
SplitWsAt(s, piece) ==
  IF s = <<>> THEN IF piece = <<>> THEN <<>> ELSE <<piece>>
  ELSE IF Head(s) \in Space
         THEN (IF piece = <<>> THEN <<>> ELSE <<piece>>) \o SplitWsAt(Tail(s), <<>>)
         ELSE SplitWsAt(Tail(s), Append(piece, Head(s)))

SplitWs(s) == SplitWsAt(s, <<>>)

RECURSIVE Join(_, _)
\* sep.join(parts)
Join(sep, parts) ==
  IF parts = <<>> THEN <<>>
  ELSE IF Len(parts) = 1 THEN parts[1]
  ELSE parts[1] \o sep \o Join(sep, Tail(parts))

\* ' '.join(s.split())
CollapseWs(s) == Join(<<" ">>, SplitWs(s))

\* s.startswith(c)
StartsWith(s, c) == s # <<>> /\ s[1] = c

DigitVal(c) == (CHOOSE k \in 1..10 : DigitSeq[k] = c) - 1

RECURSIVE str_digits(_)
\* The number of digits in s.
str_digits(s) ==
  IF s = <<>> THEN 0
  ELSE (IF Head(s) = NINES THEN IntMaxStrDigits + 1
        ELSE IF Head(s) \in Digit THEN 1 ELSE 0) + str_digits(Tail(s))

\* int(s) raises "ValueError: Exceeds the limit (4300 digits) for integer
\* string conversion".
int_raises(s) == str_digits(s) > IntMaxStrDigits

RECURSIVE DigitsVal(_, _)
DigitsVal(s, acc) ==
  IF s = <<>> THEN acc
  ELSE IF Head(s) \in Digit THEN DigitsVal(Tail(s), 10 * acc + DigitVal(Head(s)))
  ELSE DigitsVal(Tail(s), acc)

\* The literals int() accepts: optional blanks, a sign, decimal digits with
\* single underscores between them.
IntLiteral ==
  Cat(<<Bos, Star(Chr(Space)), Grp(1, Opt(Chr({"+", "-"}))),
        Grp(2, Cat(<<Plus(Chr(Digit)),
                     Star(Cat(<<Chr({"_"}), Plus(Chr(Digit))>>))>>)),
        Star(Chr(Space)), Eos>>)

\* int(s): Some(value), or None where Python raises ValueError.
IntOf(s) ==
  LET m == ReMatch(IntLiteral, s)
  IN IF m = None \/ int_raises(s) THEN None
     ELSE LET v == DigitsVal(Group(s, m[1], 2), 0)
          IN Some(IF Group(s, m[1], 1) = <<"-">> THEN 0 - v ELSE v)

(***************************************************************************)
(* VocabItem and the patterns of pdf_parser.py.                            *)
(***************************************************************************)
VocabItem(number, word, meaning, pos) ==
  [number |-> number, word |-> word, meaning |-> meaning, pos |-> pos]

Sp == Chr(Space)
Digits == Plus(Chr(Digit))
\* [a-zA-Z][a-zA-Z\-]*
WordTok == Cat(<<Chr(Alpha), Star(Chr(Alpha \cup {"-"}))>>)
\* (?:\s*\([^)]+\))?
ParenTail == Opt(Cat(<<Star(Sp), Chr({"("}), Plus(NotChr({")"})), Chr({")"})>>))
\* [가-힣]
HasHangul == Chr(Hangul)
\* ^[avn]\.\s*
LeadingPos == Cat(<<Bos, Chr(PosTag), Chr({"."}), Star(Sp)>>)
\* \s+[avn]\.\s*
InnerPos == Cat(<<Plus(Sp), Chr(PosTag), Chr({"."}), Star(Sp)>>)

\* (\d+)\s*[□☐\[\]O]?\s*([a-zA-Z][a-zA-Z\-]*(?:\s*\([^)]+\))?)\s*\n\s*
\* ([avn]\.?\s*[가-힣].*?)(?=\n\d+|\n*$)   with re.MULTILINE
PatternTwoLine ==
  Cat(<<Grp(1, Digits), Star(Sp), Opt(Chr(CheckboxO)), Star(Sp),
        Grp(2, Cat(<<WordTok, ParenTail>>)), Star(Sp), Chr({LF}), Star(Sp),
        Grp(3, Cat(<<Chr(PosTag), Opt(Chr({"."})), Star(Sp), Chr(Hangul),
                     LazyStar(Dot)>>)),
        Look(Alt(<<Cat(<<Chr({LF}), Digits>>), Cat(<<Star(Chr({LF})), EolM>>)>>))>>)

\* (\d+)\s*[□☐\[\]O]?\s*([a-zA-Z][a-zA-Z\-]*(?:\s*\([^)]+\))?)\s+
\* ([avn]\.\s*[가-힣][^\n]*)
PatternOneLine ==
  Cat(<<Grp(1, Digits), Star(Sp), Opt(Chr(CheckboxO)), Star(Sp),
        Grp(2, Cat(<<WordTok, ParenTail>>)), Plus(Sp),
        Grp(3, Cat(<<Chr(PosTag), Chr({"."}), Star(Sp), Chr(Hangul),
                     Star(NotChr({LF}))>>))>>)

\* ^(\d+)\s*[□☐\[\]O]?\s*([a-zA-Z][a-zA-Z\-]*)\s+(.+)$
PatternFull ==
  Cat(<<Bos, Grp(1, Digits), Star(Sp), Opt(Chr(CheckboxO)), Star(Sp),
        Grp(2, WordTok), Plus(Sp), Grp(3, Plus(Dot)), Eos>>)

\* ^(\d+)\s*[□☐\[\]O]?\s*([a-zA-Z][a-zA-Z\-]*)$
PatternNumWord ==
  Cat(<<Bos, Grp(1, Digits), Star(Sp), Opt(Chr(CheckboxO)), Star(Sp),
        Grp(2, WordTok), Eos>>)

\* ^[a-zA-Z][a-zA-Z\-]*$
PatternBareWord == Cat(<<Bos, WordTok, Eos>>)

\* ^(\d+)\s*[O□☐\[\]oO]?\s*([a-zA-Z][a-zA-Z\-]*)
PatternOcrLine ==
  Cat(<<Bos, Grp(1, Digits), Star(Sp), Opt(Chr(CheckboxOo)), Star(Sp),
        Grp(2, WordTok)>>)

\* (\d+)\s*[□☐\[\]]\s*([a-zA-Z\-]+)\s+(.+?)(?=\d+\s*[□☐\[\]]|$)  with re.DOTALL
PatternTable ==
  Cat(<<Grp(1, Digits), Star(Sp), Chr(CheckboxPlain), Star(Sp),
        Grp(2, Plus(Chr(Alpha \cup {"-"}))), Plus(Sp), Grp(3, LazyPlus(DotAll)),
        Look(Alt(<<Cat(<<Digits, Star(Sp), Chr(CheckboxPlain)>>), Eos>>))>>)

\* \b[avn](?:d)?\.?\s*
PatternPosStrip ==
  Cat(<<Wb, Chr(PosTag), Opt(Chr({"d"})), Opt(Chr({"."})), Star(Sp)>>)

\* \b([avn](?:d)?)\.\s*
PatternPosFind ==
  Cat(<<Wb, Grp(1, Cat(<<Chr(PosTag), Opt(Chr({"d"}))>>)), Chr({"."}), Star(Sp)>>)

number_of(s, m) == DigitsVal(Group(s, m, 1), 0)

RECURSIVE InsertByNumber_before_equal(_, _)
\* A sort that is not stable: x goes before the entries with its number.
InsertByNumber_before_equal(sorted, x) ==
  IF sorted = <<>> THEN <<x>>
  ELSE IF Head(sorted).number < x.number
         THEN <<Head(sorted)>> \o InsertByNumber_before_equal(Tail(sorted), x)
         ELSE <<x>> \o sorted

RECURSIVE InsertByNumber(_, _)
\* x placed after every entry whose number is not greater: the step of a
\* stable sort.
InsertByNumber(sorted, x) ==
  IF sorted = <<>> THEN <<x>>
  ELSE IF Head(sorted).number <= x.number
         THEN <<Head(sorted)>> \o InsertByNumber(Tail(sorted), x)
         ELSE <<x>> \o sorted

RECURSIVE SortedByNumberInto(_, _)
SortedByNumberInto(items, acc) ==
  IF items = <<>> THEN acc
  ELSE SortedByNumberInto(Tail(items), InsertByNumber(acc, Head(items)))

\* The sort left out.
SortedByNumber_unsorted(items) == items

\* sorted(items, key=lambda x: x.number): ascending and stable.
SortedByNumber(items) == SortedByNumberInto(items, <<>>)

(***************************************************************************)
(* parse_ocr_vocab_text and parse_vocab_table.                             *)
(***************************************************************************)
\* Lines 244-246 and 253-255: drop a leading part-of-speech tag, turn the
\* inner ones into ", ", collapse the blanks.
clean_meaning(raw) ==
  CollapseWs(ReSub(InnerPos, <<",", " ">>, ReSub(LeadingPos, <<>>, raw)))

\* The loop body that takes the next line as the meaning without consuming it.
ocr_step_keeps_next(lines, i, vocab_list) ==
  LET line == Strip(lines[i + 1])
      match == ReMatch(PatternOcrLine, line)
  IN IF match = None THEN [i |-> i + 1, vocab_list |-> vocab_list]
     ELSE
       LET number == number_of(line, match[1])
           word == Strip(Group(line, match[1], 2))
           next_line == IF i + 1 < Len(lines) THEN Strip(lines[i + 2]) ELSE <<>>
           takes_next == i + 1 < Len(lines) /\ ReSearch(HasHangul, next_line) # None
           from_next == IF takes_next THEN clean_meaning(next_line) ELSE <<>>
           rest == Strip(SubSeq(line, match[1].pos, Len(line)))
           meaning == IF from_next = <<>> /\ ReSearch(HasHangul, rest) # None
                        THEN clean_meaning(rest) ELSE from_next
       IN [i |-> i + 1,
           vocab_list |->
             IF word # <<>> /\ Len(word) > 1 /\ meaning # <<>>
               THEN Append(vocab_list, VocabItem(number, word, meaning, None))
               ELSE vocab_list]

\* The body of the while loop for the line at index i (from 0): the index
\* and the list it leaves.
ocr_step(lines, i, vocab_list) ==
  LET line == Strip(lines[i + 1])
      match == ReMatch(PatternOcrLine, line)
  IN IF match = None THEN [i |-> i + 1, vocab_list |-> vocab_list]
     ELSE
       LET number == number_of(line, match[1])
           word == Strip(Group(line, match[1], 2))
           next_line == IF i + 1 < Len(lines) THEN Strip(lines[i + 2]) ELSE <<>>
           takes_next == i + 1 < Len(lines) /\ ReSearch(HasHangul, next_line) # None
           from_next == IF takes_next THEN clean_meaning(next_line) ELSE <<>>
           rest == Strip(SubSeq(line, match[1].pos, Len(line)))
           meaning == IF from_next = <<>> /\ ReSearch(HasHangul, rest) # None
                        THEN clean_meaning(rest) ELSE from_next
       IN [i |-> (IF takes_next THEN i + 1 ELSE i) + 1,
           vocab_list |->
             IF word # <<>> /\ Len(word) > 1 /\ meaning # <<>>
               THEN Append(vocab_list, VocabItem(number, word, meaning, None))
               ELSE vocab_list]

RECURSIVE ocr_loop(_, _, _)
ocr_loop(lines, i, vocab_list) ==
  IF i < Len(lines)
    THEN LET nxt == ocr_step(lines, i, vocab_list)
         IN ocr_loop(lines, nxt.i, nxt.vocab_list)
    ELSE vocab_list

parse_ocr_vocab_text(text) == ocr_loop(Split(text, LF, -1), 0, <<>>)

RECURSIVE Groups1(_, _)
\* What re.findall returns for a pattern with one group.
Groups1(s, ms) ==
  IF ms = <<>> THEN <<>> ELSE <<Group(s, Head(ms), 1)>> \o Groups1(s, Tail(ms))

RECURSIVE table_items(_, _)
table_items(text, matches) ==
  IF matches = <<>> THEN <<>>
  ELSE
    LET match == Head(matches)
        number == number_of(text, match)
        word == Strip(Group(text, match, 2))
        meaning_raw == Strip(Group(text, match, 3))
        meaning_clean == Strip(CollapseWs(ReSub(PatternPosStrip, <<>>, meaning_raw)))
        pos_matches == Groups1(meaning_raw, ReFindAll(PatternPosFind, meaning_raw))
        pos == IF pos_matches # <<>> THEN Some(Join(<<",", " ">>, pos_matches))
               ELSE None
    IN (IF word # <<>> /\ meaning_clean # <<>>
          THEN <<VocabItem(number, word, meaning_clean, pos)>> ELSE <<>>)
       \o table_items(text, Tail(matches))

parse_vocab_table(text) == table_items(text, ReFindAll(PatternTable, text))

(***************************************************************************)
(* parse_vocab_simple: the two pattern stages and the line scanner.        *)
(***************************************************************************)
RECURSIVE pattern_items(_, _)
\* The loop of lines 331-338 (and 349-355) over the matches of a pattern.
pattern_items(text, matches) ==
  IF matches = <<>> THEN <<>>
  ELSE
    LET match == Head(matches)
        number == number_of(text, match)
        word == Strip(Group(text, match, 2))
        meaning == ReSub(LeadingPos, <<>>, Strip(Group(text, match, 3)))
    IN (IF word # <<>> /\ meaning # <<>>
          THEN <<VocabItem(number, word, meaning, None)>> ELSE <<>>)
       \o pattern_items(text, Tail(matches))

RECURSIVE stripped_lines(_)
\* [line.strip() for line in text.split('\n') if line.strip()]
stripped_lines(split) ==
  IF split = <<>> THEN <<>>
  ELSE (IF Strip(Head(split)) # <<>> THEN <<Strip(Head(split))>> ELSE <<>>)
       \o stripped_lines(Tail(split))

Placeholder == <<"[", "U+B73B", " ", "U+C785", "U+B825", " ", "U+D544", "U+C694", "]">>

\* save_item without its placeholder.
save_item_no_placeholder(vocab_list, number, word, meaning) ==
  LET n == IF number = None THEN Len(vocab_list) + 1 ELSE number[1]
  IN Append(vocab_list, VocabItem(n, word[1], meaning, None))

\* save_item: number and word are optional values as the scanner holds them.
save_item(vocab_list, number, word, meaning) ==
  LET n == IF number = None THEN Len(vocab_list) + 1 ELSE number[1]
      m == IF meaning = <<>> THEN Placeholder ELSE meaning
  IN Append(vocab_list, VocabItem(n, word[1], m, None))

\* `if current_word:` is the truth value of an optional str.
Truthy(opt) == opt # None /\ opt[1] # <<>>

(***************************************************************************)
(* Inputs.                                                                 *)
(***************************************************************************)
MaxLines == 3
MaxPages == 2

\* The lines a text is made of: a number+word line, a tagged meaning, a
\* whole record with a checkbox and a tag, a bare word, a record without
\* tag, comma-separated lines without a number, with a malformed one and
\* with a number, a comment.
LinePool ==
  { <<"5", " ", "a", "b">>,
    <<"n", ".", " ", GA>>,
    <<"2", " ", BOX, " ", "c", "d", " ", "v", ".", " ", NA>>,
    <<"a", "b">>,
    <<"5", " ", "c", "d", " ", NA>>,
    <<"c", "d", ",", GA>>,
    <<"x", ",", "a", "b", ",", GA>>,
    <<"7", ",", "c", "d", ",", NA>>,
    <<"#", "c">> }

\* Texts with a number of more digits than int() converts: a whole record, the
\* same after a bare word, a two-line record, a record with checkbox and tag,
\* and a comma-separated line.
LongNumberTexts ==
  { <<NINES, " ", "c", "d", " ", NA>>,
    <<"a", "b", LF, NINES, " ", "c", "d", " ", NA>>,
    <<"5", " ", "a", "b", LF, NINES, " ", "c", "d", " ", NA>>,
    <<NINES, " ", "a", "b", LF, "n", ".", " ", GA>>,
    <<NINES, " ", BOX, " ", "c", "d", " ", "v", ".", " ", NA>>,
    <<"a", "b", LF, NINES, " ", "c", "d">>,
    <<NINES, ",", "c", "d", ",", NA>> }

\* A whole record numbered 2, then a bare word.
NumberedThenBare == <<"2", " ", "c", "d", " ", NA, LF, "a", "b">>

\* A number+word line with a checkbox, then a tagged meaning line.
ExampleTwoLine ==
  <<"5", "1", " ", BOX, " ", "e", "m", "p", "t", "y", LF,
    "a", ".", " ", BI, EO, " ", ISS, NEUN>>

Texts ==
  {Join(<<LF>>, ls) : ls \in UNION {[1..n -> LinePool] : n \in 0..MaxLines}}
    \cup {ExampleTwoLine} \cup LongNumberTexts \cup {NumberedThenBare}

\* What the recognition engine may return for one half of a page.
OcrTexts ==
  { <<>>,
    <<"5", " ", "a", "b", LF, GA>>,
    <<"5", " ", "c", "d", LF, NA>>,
    <<"7", " ", "a", "b", " ", GA, LF, "2", " ", "c", "d", LF, "n", ".", " ", NA>> }

\* The parsers that take a text, and the three functions that call
\* parse_vocab_simple and fall back to the CSV loop.
TextCalls == {"parse_vocab_simple", "parse_vocab_table", "parse_ocr_vocab_text"}
Callers == {"load_vocab_from_text", "streamlit_app.parse_text_to_vocab",
            "vocaaudio_gui.parse_text_to_vocab"}

(***************************************************************************)
(* State.                                                                  *)
(***************************************************************************)
VARIABLES
  call,            \* the parser that was called
  caller,          \* the function parse_vocab_simple returns to; nothing in
                   \* parse_vocab_simple depends on it, so it is left open
                   \* ("") until the return
  text,            \* its text argument
  pc,              \* where control is
  vocab_list,      \* the local vocab_list of the running function
  lines, i,        \* the list a loop runs over and the index of its next item
  current_number,  \* scanner: optional int
  current_word,    \* scanner: optional str
  simple_result,   \* what parse_vocab_simple returned to its caller
  total_pages,     \* extract_vocab_with_ocr_table: len(doc)
  page_idx, half_idx,
  candidates,      \* the items lists, in the order vocab_list.extend got them
  seen, unique_list,
  rotate,          \* extract_vocab_with_ocr_table: its rotate argument
  detect_calls,    \* the calls of detect_and_fix_orientation it made
  result           \* the list the called function returned

\* detect_and_fix_orientation.
VARIABLES
  has_ocr,         \* HAS_OCR: pytesseract and pillow were imported
  o_pc,            \* where control is in detect_and_fix_orientation
  img,             \* the image, as the angle it has been turned by so far
                   \* (counter-clockwise, as Image.rotate counts; 0 as given)
  osd_raised,      \* image_to_osd raised
  rotation,        \* optional int: osd.get('rotate', 0)
  english_words_original, english_words_rotated,   \* optional ints
  string_calls     \* the image_to_string calls the heuristic made

heuristic_vars == <<o_pc, osd_raised, rotation, english_words_original,
                    english_words_rotated, string_calls>>
orient_vars == <<has_ocr, img, heuristic_vars>>

parser_vars == <<call, caller, text, pc, vocab_list, lines, i, current_number,
                 current_word, simple_result, total_pages, page_idx, half_idx,
                 candidates, seen, unique_list, rotate, detect_calls, result>>

\* The meaning normalization applied to a string and to its own output.
VARIABLES
  raw_meaning,     \* the string given
  cleaned          \* the outputs of the applications made so far, in order

norm_vars == <<raw_meaning, cleaned>>

\* extract_text_from_image.
VARIABLES
  use_cloud_vision,   \* its use_cloud_vision argument
  has_cloud_vision,   \* HAS_CLOUD_VISION: google.cloud.vision was imported
  api_key,            \* an api_key was given
  two_column,         \* its two_column argument
  im_pc,              \* where control is in extract_text_from_image
  engine_calls,       \* the recognition calls made so far, each with its outcome
  full_text,          \* the text returned
  im_error            \* the exception that left the function, "" if none

image_vars == <<use_cloud_vision, has_cloud_vision, api_key, two_column, im_pc,
                engine_calls, full_text, im_error>>

\* main of vocaaudio.py.
VARIABLES
  is_text_file,       \* the input file ends in .txt or .csv
  args_ocr, args_simple_parse, args_rotate,   \* --ocr, --simple-parse, --rotate
  cli_pc,             \* where control is in main
  file_text,          \* optional str: the text of the input file, once read
  cli_vocab_list,     \* main's vocab_list
  attempts,           \* the extraction functions main has called, in order
  exit_code           \* optional int: what main returned

\* main of vocaaudio.py, before and after the extraction.
VARIABLES
  args_list_voices, args_preview,   \* --list-voices, --preview
  input_file,         \* the pdf_file argument: absent, missing, or its kind
  audio_calls,        \* how many times main has called generate_vocab_audio
  main_success        \* optional bool: main's success, what generate_vocab_audio returned

run_vars == <<args_list_voices, args_preview, input_file, audio_calls, main_success>>

cli_vars == <<is_text_file, args_ocr, args_simple_parse, args_rotate, cli_pc,
              file_text, cli_vocab_list, attempts, exit_code, run_vars>>

\* The image that is cut into columns.
VARIABLES
  width,              \* img.size[0] of the image at hand, 0 while there is none
  crops               \* the boxes (left, right) cropped out of it and recognised
                      \* so far, in order

crop_vars == <<width, crops>>

\* VocaAudioApp (vocaaudio_gui.py).
VARIABLES
  is_generating,      \* self.is_generating
  generate_btn,       \* the state of self.generate_btn: "normal" or "disabled"
  has_words,          \* self.vocab_list is not empty
  workers,            \* the threads started so far, each by where it is in
                      \* generate(): "running", "returning" (the completion
                      \* callback is posted), "in_except" (the error callback
                      \* is posted, e is still bound), "ended"
  tk_queue,           \* the callbacks given to root.after and not yet run
  message             \* the last messagebox shown, "" if none

gui_vars == <<is_generating, generate_btn, has_words, workers, tk_queue, message>>

\* generate_vocab_audio_async (tts_generator.py).
VARIABLES
  has_edge_tts,       \* HAS_EDGE_TTS
  total,              \* len(vocab_list)
  english_repeat, meaning_repeat,   \* config.english_repeat, config.meaning_repeat
  tts_pc,             \* where control is in the function
  tts_i,              \* the index of the entry the loop is at
  audio_segments,     \* the files listed so far
  file_list,          \* optional: the list given to concatenate_audio_files
  tts_return          \* optional bool: what the function returned

tts_vars == <<has_edge_tts, total, english_repeat, meaning_repeat, tts_pc, tts_i,
              audio_segments, file_list, tts_return>>

\* extract_vocab_with_gemini_vision (pdf_parser.py).
VARIABLES
  gem_pc,             \* where control is in the function
  model_idx,          \* the index in models_to_try of the model the loop is at
  last_error,         \* optional: str() of the exception recorded last
  requested,          \* the models a request was posted to, in order
  responses,          \* what came back for each of these requests
  gem_return,         \* optional: the list returned
  gem_raised          \* optional: str() of the exception that left the function

gem_vars == <<gem_pc, model_idx, last_error, requested, responses, gem_return,
              gem_raised>>

far_vars == <<gui_vars, tts_vars, gem_vars>>
rest_vars == <<crop_vars, far_vars>>
beside_gui == <<parser_vars, orient_vars, norm_vars, image_vars, cli_vars, crop_vars,
                tts_vars, gem_vars>>
beside_tts == <<parser_vars, orient_vars, norm_vars, image_vars, cli_vars, crop_vars,
                gui_vars, gem_vars>>
beside_gem == <<parser_vars, orient_vars, norm_vars, image_vars, cli_vars, crop_vars,
                gui_vars, tts_vars>>
more_vars == <<orient_vars, norm_vars, image_vars, cli_vars, rest_vars>>
beside_orient == <<parser_vars, norm_vars, image_vars, cli_vars, rest_vars>>
beside_norm == <<parser_vars, orient_vars, image_vars, cli_vars, rest_vars>>
beside_image == <<parser_vars, heuristic_vars, norm_vars, cli_vars>>
beside_page == <<has_ocr, heuristic_vars, norm_vars, image_vars, cli_vars>>
beside_cli == <<orient_vars, norm_vars, image_vars, rest_vars>>

vars == <<parser_vars, more_vars>>

scan_vars == <<lines, i, current_number, current_word>>
ocr_vars == <<total_pages, page_idx, half_idx, candidates, seen, unique_list, rotate,
              detect_calls>>

\* detect_and_fix_orientation is not running.
OrientIdle ==
  /\ has_ocr = TRUE
  /\ o_pc = "idle"
  /\ img = 0
  /\ osd_raised = FALSE
  /\ rotation = None
  /\ english_words_original = None
  /\ english_words_rotated = None
  /\ string_calls = 0

NormIdle == raw_meaning = <<>> /\ cleaned = <<>>

\* No parser is running.
ParserIdle ==
  /\ caller = ""
  /\ text = <<>>
  /\ pc = "idle"
  /\ vocab_list = <<>>
  /\ lines = <<>>
  /\ i = 0
  /\ current_number = None
  /\ current_word = None
  /\ simple_result = <<>>
  /\ total_pages = 0
  /\ page_idx = 0
  /\ half_idx = 0
  /\ candidates = <<>>
  /\ seen = {}
  /\ unique_list = <<>>
  /\ rotate = 0
  /\ detect_calls = 0
  /\ result = <<>>

\* extract_text_from_image is not running.
ImageIdle ==
  /\ use_cloud_vision = FALSE
  /\ has_cloud_vision = FALSE
  /\ api_key = FALSE
  /\ two_column = FALSE
  /\ im_pc = "idle"
  /\ engine_calls = <<>>
  /\ full_text = <<>>
  /\ im_error = ""

\* main is not running.
CliIdle ==
  /\ is_text_file = FALSE
  /\ args_ocr = FALSE
  /\ args_simple_parse = FALSE
  /\ args_rotate = 0
  /\ cli_pc = "idle"
  /\ file_text = None
  /\ cli_vocab_list = <<>>
  /\ attempts = <<>>
  /\ exit_code = None
  /\ args_list_voices = FALSE
  /\ args_preview = FALSE
  /\ input_file = "none"
  /\ audio_calls = 0
  /\ main_success = None

\* No image is at hand.
CropIdle == width = 0 /\ crops = <<>>

\* No VocaAudioApp has been built.
GuiIdle ==
  /\ is_generating = FALSE
  /\ generate_btn = "normal"
  /\ has_words = FALSE
  /\ workers = <<>>
  /\ tk_queue = <<>>
  /\ message = ""

\* generate_vocab_audio_async is not running.
TtsIdle ==
  /\ has_edge_tts = FALSE
  /\ total = 0
  /\ english_repeat = 0
  /\ meaning_repeat = 0
  /\ tts_pc = "idle"
  /\ tts_i = 0
  /\ audio_segments = <<>>
  /\ file_list = None
  /\ tts_return = None

\* extract_vocab_with_gemini_vision is not running.
GemIdle ==
  /\ gem_pc = "idle"
  /\ model_idx = 0
  /\ last_error = None
  /\ requested = <<>>
  /\ responses = <<>>
  /\ gem_return = None
  /\ gem_raised = None

RestIdle == CropIdle /\ GuiIdle /\ TtsIdle /\ GemIdle

MoreIdle == OrientIdle /\ NormIdle /\ ImageIdle /\ CliIdle /\ RestIdle

InitText ==
  /\ call \in TextCalls
  /\ caller = ""
  /\ text \in Texts
  /\ pc = IF call = "parse_vocab_simple" THEN "two_line" ELSE "start"
  /\ vocab_list = <<>>
  /\ lines = <<>>
  /\ i = 0
  /\ current_number = None
  /\ current_word = None
  /\ simple_result = <<>>
  /\ total_pages = 0
  /\ page_idx = 0
  /\ half_idx = 0
  /\ candidates = <<>>
  /\ seen = {}
  /\ unique_list = <<>>
  /\ rotate = 0
  /\ detect_calls = 0
  /\ result = <<>>
  /\ MoreIdle

(***************************************************************************)
(* int() of a matched number that has too many digits.                     *)
(***************************************************************************)
HasLongNumber(s) == \E k \in 1..Len(s) : s[k] = NINES

\* The loop over the matches reaches a number int() does not convert.
pattern_raises(text_, matches) ==
  \E k \in 1..Len(matches) : int_raises(Group(text_, matches[k], 1))

RECURSIVE ocr_raises(_, _)
\* The while loop of parse_ocr_vocab_text reaches such a number (line 234).
ocr_raises(lines_, i_) ==
  IF i_ < Len(lines_)
    THEN LET line == Strip(lines_[i_ + 1])
             match == ReMatch(PatternOcrLine, line)
         IN IF match # None /\ int_raises(Group(line, match[1], 1)) THEN TRUE
            ELSE ocr_raises(lines_, ocr_step(lines_, i_, <<>>).i)
    ELSE FALSE

\* Lines 376-377 and 390-393 for the line the scanner is at.
scan_raises(line) ==
  LET fm == ReMatch(PatternFull, line)
      nm == ReMatch(PatternNumWord, line)
  IN IF fm # None /\ int_raises(Group(line, fm[1], 1)) THEN TRUE
     ELSE IF fm # None /\ ReSearch(HasHangul,
                ReSub(LeadingPos, <<>>, Strip(Group(line, fm[1], 3)))) # None
            THEN FALSE
     ELSE nm # None /\ int_raises(Group(line, nm[1], 1))

\* Lines 331-332: a number of the two-line pattern is too long for int().
two_line_raises ==
  HasLongNumber(text) /\ pattern_raises(text, ReFindAll(PatternTwoLine, text))

\* Lines 349-350, for the one-line pattern.
one_line_raises ==
  HasLongNumber(text) /\ pattern_raises(text, ReFindAll(PatternOneLine, text))

\* Lines 376-377 and 390-393, for the line the scanner is at.
scan_raises_here ==
  HasLongNumber(text) /\ i < Len(lines) /\ scan_raises(lines[i + 1])

\* Lines 282-283, for the table pattern.
table_raises ==
  HasLongNumber(text) /\ pattern_raises(text, ReFindAll(PatternTable, text))

\* Line 234, for the text of one OCR half.
ocr_text_raises ==
  HasLongNumber(text) /\ ocr_raises(Split(text, LF, -1), 0)

\* The step control is at calls int() on a matched number that is too long.
int_raises_here ==
  IF pc = "two_line" THEN two_line_raises
  ELSE IF pc = "one_line" THEN one_line_raises
  ELSE IF pc = "scan" THEN scan_raises_here
  ELSE IF pc = "start" /\ call = "parse_vocab_table" THEN table_raises
  ELSE IF pc = "start" /\ call = "parse_ocr_vocab_text" THEN ocr_text_raises
  ELSE FALSE

\* Lines 234, 283, 332, 350, 377, 393: the ValueError leaves the parser, and
\* load_vocab_from_text with it (line 430 is in no try).
RaiseValueError ==
  /\ int_raises_here
  /\ pc' = "raised"
  /\ UNCHANGED <<more_vars, call, caller, text, vocab_list, scan_vars, simple_result,
                 ocr_vars, result>>

(***************************************************************************)
(* parse_vocab_simple, stage by stage.                                     *)
(***************************************************************************)
\* Stage 1 that keeps its entries but goes on to stage 2 instead of returning.
TwoLine_falls_through ==
  /\ pc = "two_line"
  /\ ~two_line_raises
  /\ LET pattern_two_line == ReFindAll(PatternTwoLine, text)
     IN vocab_list' = IF pattern_two_line # <<>>
                        THEN vocab_list \o pattern_items(text, pattern_two_line)
                        ELSE vocab_list
  /\ pc' = "one_line"
  /\ UNCHANGED <<more_vars, call, caller, text, scan_vars, simple_result, ocr_vars, result>>

\* Lines 326-340.
TwoLine ==
  /\ pc = "two_line"
  /\ ~two_line_raises
  /\ LET pattern_two_line == ReFindAll(PatternTwoLine, text)
         appended == IF pattern_two_line # <<>>
                       THEN vocab_list \o pattern_items(text, pattern_two_line)
                       ELSE vocab_list
     IN IF pattern_two_line # <<>> /\ appended # <<>>
          THEN /\ simple_result' = SortedByNumber(appended)
               /\ vocab_list' = appended
               /\ pc' = "simple_returned"
          ELSE /\ vocab_list' = appended
               /\ pc' = "one_line"
               /\ UNCHANGED simple_result
  /\ UNCHANGED <<more_vars, call, caller, text, scan_vars, ocr_vars, result>>

\* Lines 344-363.
OneLine ==
  /\ pc = "one_line"
  /\ ~one_line_raises
  /\ LET pattern_one_line == ReFindAll(PatternOneLine, text)
         appended == IF pattern_one_line # <<>>
                       THEN vocab_list \o pattern_items(text, pattern_one_line)
                       ELSE vocab_list
     IN IF pattern_one_line # <<>> /\ appended # <<>>
          THEN /\ simple_result' = SortedByNumber(appended)
               /\ vocab_list' = appended
               /\ pc' = "simple_returned"
               /\ UNCHANGED scan_vars
          ELSE /\ vocab_list' = appended
               /\ lines' = stripped_lines(Split(text, LF, -1))
               /\ i' = 0
               /\ current_number' = None
               /\ current_word' = None
               /\ pc' = "scan"
               /\ UNCHANGED simple_result
  /\ UNCHANGED <<more_vars, call, caller, text, ocr_vars, result>>

\* The branch of the scanner's loop body that a line takes while `word` is
\* pending: the if chain of lines 375-411, each branch ending in continue.
full_match(line) == ReMatch(PatternFull, line)
full_meaning(line, m) == ReSub(LeadingPos, <<>>, Strip(Group(line, m, 3)))
num_word_match(line) == ReMatch(PatternNumWord, line)
scan_branch(line, word) ==
  LET fm == full_match(line)
  IN IF fm # None /\ ReSearch(HasHangul, full_meaning(line, fm[1])) # None
       THEN "full"
     ELSE IF num_word_match(line) # None THEN "num_word"
     ELSE IF ReSearch(HasHangul, line) # None /\ Truthy(word) THEN "meaning"
     ELSE IF ReMatch(PatternBareWord, line) # None THEN "bare"
     ELSE "none"

Scanning == pc = "scan" /\ i < Len(lines) /\ ~scan_raises_here

\* Lines 375-386: number, word and meaning on one line.
ScanFull ==
  /\ Scanning
  /\ scan_branch(lines[i + 1], current_word) = "full"
  /\ LET line == lines[i + 1]
         m == full_match(line)[1]
     IN vocab_list' = save_item(vocab_list, Some(number_of(line, m)),
                                Some(Strip(Group(line, m, 2))),
                                full_meaning(line, m))
  /\ current_number' = None
  /\ current_word' = None
  /\ i' = i + 1
  /\ UNCHANGED <<more_vars, call, caller, text, pc, lines, simple_result, ocr_vars, result>>

\* Lines 389-395: number and word only.
ScanNumWord ==
  /\ Scanning
  /\ scan_branch(lines[i + 1], current_word) = "num_word"
  /\ LET line == lines[i + 1]
         m == num_word_match(line)[1]
     IN /\ vocab_list' = IF Truthy(current_word)
                           THEN save_item(vocab_list, current_number, current_word, <<>>)
                           ELSE vocab_list
        /\ current_number' = Some(number_of(line, m))
        /\ current_word' = Some(Strip(Group(line, m, 2)))
  /\ i' = i + 1
  /\ UNCHANGED <<more_vars, call, caller, text, pc, lines, simple_result, ocr_vars, result>>

\* A meaning line that clears the pending word but keeps the pending number.
ScanMeaning_keeps_number ==
  /\ Scanning
  /\ scan_branch(lines[i + 1], current_word) = "meaning"
  /\ vocab_list' = save_item(vocab_list, current_number, current_word,
                             CollapseWs(ReSub(LeadingPos, <<>>, lines[i + 1])))
  /\ current_word' = None
  /\ i' = i + 1
  /\ UNCHANGED <<more_vars, call, caller, text, pc, lines, current_number, simple_result,
                 ocr_vars, result>>

\* Lines 398-404: a meaning for the pending word.
ScanMeaning ==
  /\ Scanning
  /\ scan_branch(lines[i + 1], current_word) = "meaning"
  /\ vocab_list' = save_item(vocab_list, current_number, current_word,
                             CollapseWs(ReSub(LeadingPos, <<>>, lines[i + 1])))
  /\ current_word' = None
  /\ current_number' = None
  /\ i' = i + 1
  /\ UNCHANGED <<more_vars, call, caller, text, pc, lines, simple_result, ocr_vars, result>>

\* A bare word that replaces the pending word without flushing it.
ScanBare_drops_pending ==
  /\ Scanning
  /\ scan_branch(lines[i + 1], current_word) = "bare"
  /\ current_word' = Some(Strip(lines[i + 1]))
  /\ i' = i + 1
  /\ UNCHANGED <<more_vars, call, caller, text, pc, vocab_list, lines, current_number,
                 simple_result, ocr_vars, result>>

\* Lines 407-411: a bare word.
ScanBare ==
  /\ Scanning
  /\ scan_branch(lines[i + 1], current_word) = "bare"
  /\ vocab_list' = IF Truthy(current_word)
                     THEN save_item(vocab_list, current_number, current_word, <<>>)
                     ELSE vocab_list
  /\ current_word' = Some(Strip(lines[i + 1]))
  /\ i' = i + 1
  /\ UNCHANGED <<more_vars, call, caller, text, pc, lines, current_number, simple_result, ocr_vars,
                 result>>

\* A line none of the four branches takes.
ScanSkip ==
  /\ Scanning
  /\ scan_branch(lines[i + 1], current_word) = "none"
  /\ i' = i + 1
  /\ UNCHANGED <<more_vars, call, caller, text, pc, vocab_list, lines, current_number, current_word,
                 simple_result, ocr_vars, result>>

\* Lines 413-416.
ScanEnd ==
  /\ pc = "scan"
  /\ i = Len(lines)
  /\ vocab_list' = IF Truthy(current_word)
                     THEN save_item(vocab_list, current_number, current_word, <<>>)
                     ELSE vocab_list
  /\ simple_result' = vocab_list'
  /\ pc' = "simple_returned"
  /\ UNCHANGED <<more_vars, call, caller, text, scan_vars, ocr_vars, result>>

(***************************************************************************)
(* The callers of parse_vocab_simple and their CSV fallback.               *)
(***************************************************************************)
\* `if vocab_list: return vocab_list` after the call.
ReturnCascade ==
  /\ pc = "simple_returned"
  /\ simple_result # <<>>
  /\ caller' \in Callers
  /\ vocab_list' = simple_result
  /\ result' = simple_result
  /\ pc' = "done"
  /\ UNCHANGED <<more_vars, call, text, scan_vars, simple_result, ocr_vars>>

\* The CSV loop started whatever the cascade returned.
StartCsv_unconditional ==
  /\ pc = "simple_returned"
  /\ caller' \in Callers
  /\ vocab_list' = <<>>
  /\ lines' = Split(text, LF, -1)
  /\ i' = 0
  /\ pc' = "csv"
  /\ UNCHANGED <<more_vars, call, text, current_number, current_word, simple_result,
                 ocr_vars, result>>

\* The cascade found nothing: the CSV loop starts.
StartCsv ==
  /\ pc = "simple_returned"
  /\ simple_result = <<>>
  /\ caller' \in Callers
  /\ vocab_list' = <<>>
  /\ lines' = Split(text, LF, -1)
  /\ i' = 0
  /\ pc' = "csv"
  /\ UNCHANGED <<more_vars, call, text, current_number, current_word, simple_result,
                 ocr_vars, result>>

\* The number of an entry whose line gives none: pdf_parser.py line 450 and
\* 455, streamlit_app.py line 121 and 125, vocaaudio_gui.py line 260 and 265.
line_number(impl, idx, vocab_list_) ==
  IF impl = "load_vocab_from_text" THEN idx + 1 ELSE Len(vocab_list_) + 1

\* int(parts[0]) in pdf_parser.py, int(parts[0].strip()) in the two UIs.
csv_int(impl, field) ==
  IF impl = "load_vocab_from_text" THEN IntOf(field) ELSE IntOf(Strip(field))

\* The body of the CSV loop for the line at index idx (from 0).
csv_step(impl, raw, idx, vocab_list_) ==
  LET line == Strip(raw)
      parts == Split(line, ",", 2)
      parsed == csv_int(impl, parts[1])
      number == IF Len(parts) >= 3 /\ parsed # None THEN parsed[1]
                ELSE line_number(impl, idx, vocab_list_)
      word == IF Len(parts) >= 3 THEN Strip(parts[2]) ELSE Strip(parts[1])
      meaning == IF Len(parts) >= 3 THEN Strip(parts[3]) ELSE Strip(parts[2])
  IN IF line = <<>> \/ StartsWith(line, "#") THEN vocab_list_
     ELSE IF Len(parts) < 2 THEN vocab_list_
     ELSE IF word # <<>> /\ meaning # <<>>
            THEN Append(vocab_list_, VocabItem(number, word, meaning, None))
            ELSE vocab_list_

CsvLine ==
  /\ pc = "csv"
  /\ i < Len(lines)
  /\ vocab_list' = csv_step(caller, lines[i + 1], i, vocab_list)
  /\ i' = i + 1
  /\ UNCHANGED <<more_vars, call, caller, text, pc, lines, current_number, current_word,
                 simple_result, ocr_vars, result>>

CsvReturn ==
  /\ pc = "csv"
  /\ i = Len(lines)
  /\ result' = vocab_list
  /\ pc' = "done"
  /\ UNCHANGED <<more_vars, call, caller, text, vocab_list, scan_vars, simple_result, ocr_vars>>

\* parse_vocab_table and parse_ocr_vocab_text called on the text.
ParseTable ==
  /\ pc = "start"
  /\ call = "parse_vocab_table"
  /\ ~table_raises
  /\ vocab_list' = parse_vocab_table(text)
  /\ result' = vocab_list'
  /\ pc' = "done"
  /\ UNCHANGED <<more_vars, call, caller, text, scan_vars, simple_result, ocr_vars>>

ParseOcr ==
  /\ pc = "start"
  /\ call = "parse_ocr_vocab_text"
  /\ ~ocr_text_raises
  /\ vocab_list' = parse_ocr_vocab_text(text)
  /\ result' = vocab_list'
  /\ pc' = "done"
  /\ UNCHANGED <<more_vars, call, caller, text, scan_vars, simple_result, ocr_vars>>

NextText ==
  \/ TwoLine \/ OneLine
  \/ ScanFull \/ ScanNumWord \/ ScanMeaning \/ ScanBare \/ ScanSkip \/ ScanEnd
  \/ ReturnCascade \/ StartCsv \/ CsvLine \/ CsvReturn
  \/ ParseTable \/ ParseOcr
  \/ RaiseValueError

SpecText == InitText /\ [][NextText]_vars

(***************************************************************************)
(* The meaning normalization of parse_ocr_vocab_text, lines 244-246 and    *)
(* 253-255, applied to a string and then to what it returned.              *)
(***************************************************************************)
MaxMeaningLen == 5

\* The characters the three steps tell apart: a part-of-speech letter, the
\* dot, whitespace, a Hangul syllable.
MeaningAlphabet == {"n", ".", " ", GA}
MeaningInputs == UNION {[1..n -> MeaningAlphabet] : n \in 0..MaxMeaningLen}

InitNorm ==
  /\ call = "normalize"
  /\ ParserIdle
  /\ RestIdle
  /\ OrientIdle
  /\ ImageIdle
  /\ CliIdle
  /\ raw_meaning \in MeaningInputs
  /\ cleaned = <<>>

\* Lines 244-246 on the string given.
Normalize ==
  /\ call = "normalize"
  /\ cleaned = <<>>
  /\ cleaned' = <<clean_meaning(raw_meaning)>>
  /\ UNCHANGED <<beside_norm, raw_meaning>>

\* Lines 244-246 on the output of the first application.
NormalizeAgain ==
  /\ call = "normalize"
  /\ Len(cleaned) = 1
  /\ cleaned' = Append(cleaned, clean_meaning(cleaned[1]))
  /\ UNCHANGED <<beside_norm, raw_meaning>>

NextNorm == Normalize \/ NormalizeAgain

SpecNorm == InitNorm /\ [][NextNorm]_vars

(***************************************************************************)
(* detect_and_fix_orientation.                                             *)
(***************************************************************************)
\* Image.rotate(angle) on an image that has been turned by img already.
Rotate(img_, angle) == (img_ + 360 + angle) % 360

\* The angles Tesseract's OSD reports under 'rotate'.
OsdRotations == {0, 90, 180, 270}

\* r'\b[a-zA-Z]{2,}\b'
PatternEnglishWord == Cat(<<Wb, Rep(Chr(Alpha), 2, TRUE), Wb>>)

MaxCount == 16

\* What image_to_string can return for a pass: n words of two letters or more
\* among tokens the pattern does not count (one letter, a number, Hangul).
RECURSIVE Words(_)
Words(n) == IF n = 0 THEN <<>> ELSE Append(Words(n - 1), <<"a", "b">>)
PassText(n) == Join(<<" ">>, <<<<"x">>>> \o Words(n) \o <<<<"7">>, <<GA, NA>>>>)
PassTexts == {PassText(n) : n \in 0..MaxCount}

english_words(text_) == Len(ReFindAll(PatternEnglishWord, text_))

\* Line 86 read as rotated >= original * 1.5.
heuristic_rotates_at_threshold(original, rotated) == 2 * rotated >= 3 * original

\* Line 86: english_words_rotated > english_words_original * 1.5.
heuristic_rotates(original, rotated) == 2 * rotated > 3 * original

\* The images detect_and_fix_orientation can return for img_, over all the
\* engine can answer: lines 54-55, 60-66, 86-87, 92.
detect_and_fix_orientation(img_, has_ocr_) ==
  IF ~has_ocr_ THEN {img_}
  ELSE {IF r # 0 THEN Rotate(img_, -r) ELSE img_ : r \in OsdRotations}
       \cup {IF heuristic_rotates(original, rotated) THEN Rotate(img_, 180) ELSE img_ :
               original \in 0..MaxCount, rotated \in 0..MaxCount}
       \cup {img_}

InitOrient ==
  /\ call = "detect_and_fix_orientation"
  /\ ParserIdle
  /\ RestIdle
  /\ NormIdle
  /\ ImageIdle
  /\ CliIdle
  /\ has_ocr \in BOOLEAN
  /\ o_pc = "start"
  /\ img = 0
  /\ osd_raised = FALSE
  /\ rotation = None
  /\ english_words_original = None
  /\ english_words_rotated = None
  /\ string_calls = 0

\* Lines 54-55.
OrientNoOcr ==
  /\ o_pc = "start"
  /\ ~has_ocr
  /\ o_pc' = "returned"
  /\ UNCHANGED <<beside_orient, has_ocr, img, osd_raised, rotation,
                 english_words_original, english_words_rotated, string_calls>>

\* image_to_osd answers and the image is turned by +rotation.
OsdAnswers_positive_angle ==
  /\ o_pc = "start"
  /\ has_ocr
  /\ \E r \in OsdRotations :
        /\ rotation' = Some(r)
        /\ img' = IF r # 0 THEN Rotate(img, r) ELSE img
  /\ o_pc' = "returned"
  /\ UNCHANGED <<beside_orient, has_ocr, osd_raised, english_words_original,
                 english_words_rotated, string_calls>>

\* Lines 59-66: image_to_osd answers.
OsdAnswers ==
  /\ o_pc = "start"
  /\ has_ocr
  /\ \E r \in OsdRotations :
        /\ rotation' = Some(r)
        /\ img' = IF r # 0 THEN Rotate(img, -r) ELSE img
  /\ o_pc' = "returned"
  /\ UNCHANGED <<beside_orient, has_ocr, osd_raised, english_words_original,
                 english_words_rotated, string_calls>>

\* Lines 59 and 67: image_to_osd raises.
OsdRaises ==
  /\ o_pc = "start"
  /\ has_ocr
  /\ osd_raised' = TRUE
  /\ o_pc' = "pass_original"
  /\ UNCHANGED <<beside_orient, has_ocr, img, rotation, english_words_original,
                 english_words_rotated, string_calls>>

\* Lines 76-78: the pass on the image as it is.
PassOriginal ==
  /\ o_pc = "pass_original"
  /\ \E text_original \in PassTexts :
        english_words_original' = Some(english_words(text_original))
  /\ string_calls' = string_calls + 1
  /\ o_pc' = "pass_rotated"
  /\ UNCHANGED <<beside_orient, has_ocr, img, osd_raised, rotation,
                 english_words_rotated>>

\* Lines 81-83: the pass on the image turned by 180 degrees.
PassRotated ==
  /\ o_pc = "pass_rotated"
  /\ \E text_rotated \in PassTexts :
        english_words_rotated' = Some(english_words(text_rotated))
  /\ string_calls' = string_calls + 1
  /\ o_pc' = "compare"
  /\ UNCHANGED <<beside_orient, has_ocr, img, osd_raised, rotation,
                 english_words_original>>

\* Lines 89-92: either pass raises; the image is returned as it is.
PassRaises ==
  /\ o_pc \in {"pass_original", "pass_rotated"}
  /\ string_calls' = string_calls + 1
  /\ o_pc' = "returned"
  /\ UNCHANGED <<beside_orient, has_ocr, img, osd_raised, rotation,
                 english_words_original, english_words_rotated>>

\* Lines 86-87 and 92.
Compare ==
  /\ o_pc = "compare"
  /\ img' = IF heuristic_rotates(english_words_original[1], english_words_rotated[1])
              THEN Rotate(img, 180)
              ELSE img
  /\ o_pc' = "returned"
  /\ UNCHANGED <<beside_orient, has_ocr, osd_raised, rotation, english_words_original,
                 english_words_rotated, string_calls>>

NextOrient ==
  \/ OrientNoOcr \/ OsdAnswers \/ OsdRaises
  \/ PassOriginal \/ PassRotated \/ PassRaises \/ Compare

SpecOrient == InitOrient /\ [][NextOrient]_vars

(***************************************************************************)
(* extract_text_from_image.                                                *)
(***************************************************************************)
\* What an engine may return for an image or for a crop of it.
ImageTexts == {<<>>, <<"5", " ", "a", "b", LF, GA>>}

\* The widths of an image, in pixels.
MaxWidth == 3
Widths == 1..MaxWidth

\* The two boxes with the right one starting at the width halved and rounded up.
column_boxes_rounded_up(width_) ==
  << <<0, width_ \div 2>>, <<(width_ + 1) \div 2, width_>> >>

\* Lines 194 and 815: the list [(0, width // 2), (width // 2, width)].
column_boxes(width_) == << <<0, width_ \div 2>>, <<width_ \div 2, width_>> >>

EngineCall(engine, outcome) == [engine |-> engine, outcome |-> outcome]
outcome_of(text_) == IF text_ = <<>> THEN "empty" ELSE "text"

InitImage ==
  /\ call = "extract_text_from_image"
  /\ ParserIdle
  /\ RestIdle
  /\ NormIdle
  /\ CliIdle
  /\ has_ocr \in BOOLEAN
  /\ img = 0
  /\ o_pc = "idle"
  /\ osd_raised = FALSE
  /\ rotation = None
  /\ english_words_original = None
  /\ english_words_rotated = None
  /\ string_calls = 0
  /\ use_cloud_vision \in BOOLEAN
  /\ has_cloud_vision \in BOOLEAN
  /\ api_key \in BOOLEAN
  /\ two_column \in BOOLEAN
  /\ im_pc = "start"
  /\ engine_calls = <<>>
  /\ full_text = <<>>
  /\ im_error = ""

\* Line 778.
TriesCloudVision == use_cloud_vision /\ (has_cloud_vision \/ api_key)

\* Lines 779-782: Cloud Vision returns a text; a non-empty one is returned.
CloudVisionReturns ==
  /\ im_pc = "start"
  /\ TriesCloudVision
  /\ \E text_ \in ImageTexts :
        /\ engine_calls' = Append(engine_calls, EngineCall("cloud_vision", outcome_of(text_)))
        /\ full_text' = text_
        /\ im_pc' = IF text_ # <<>> THEN "returned" ELSE "fallback"
  /\ UNCHANGED <<beside_image, rest_vars, has_ocr, img, use_cloud_vision, has_cloud_vision, api_key,
                 two_column, im_error>>

\* Lines 779 and 783-785: Cloud Vision raises; the exception is printed.
CloudVisionRaises ==
  /\ im_pc = "start"
  /\ TriesCloudVision
  /\ engine_calls' = Append(engine_calls, EngineCall("cloud_vision", "raised"))
  /\ im_pc' = "fallback"
  /\ UNCHANGED <<beside_image, rest_vars, has_ocr, img, use_cloud_vision, has_cloud_vision, api_key,
                 two_column, full_text, im_error>>

\* Line 778 false.
SkipCloudVision ==
  /\ im_pc = "start"
  /\ ~TriesCloudVision
  /\ im_pc' = "fallback"
  /\ UNCHANGED <<beside_image, rest_vars, has_ocr, img, use_cloud_vision, has_cloud_vision, api_key,
                 two_column, engine_calls, full_text, im_error>>

\* Lines 788-789.
NoOcrEngine ==
  /\ im_pc = "fallback"
  /\ ~has_ocr
  /\ im_error' = "ImportError"
  /\ im_pc' = "raised"
  /\ UNCHANGED <<beside_image, rest_vars, has_ocr, img, use_cloud_vision, has_cloud_vision, api_key,
                 two_column, engine_calls, full_text>>

\* Lines 793-808: the image is opened, enlarged, oriented and enhanced.
OpenAndOrient ==
  /\ im_pc = "fallback"
  /\ has_ocr
  /\ img' \in detect_and_fix_orientation(0, has_ocr)
  /\ width' \in Widths
  /\ crops' = <<>>
  /\ full_text' = <<>>
  /\ im_pc' = "recognise"
  /\ UNCHANGED <<beside_image, far_vars, has_ocr, use_cloud_vision, has_cloud_vision, api_key,
                 two_column, engine_calls, im_error>>

tesseract_calls ==
  Cardinality({k \in 1..Len(engine_calls) : engine_calls[k].engine = "tesseract"})

\* Lines 812-820: image_to_string on the next crop, or on the whole image.
TesseractReturns ==
  /\ im_pc = "recognise"
  /\ \E text_ \in ImageTexts :
        /\ engine_calls' = Append(engine_calls, EngineCall("tesseract", outcome_of(text_)))
        /\ full_text' = IF two_column THEN full_text \o text_ \o <<LF>> ELSE text_
  /\ crops' = IF two_column THEN Append(crops, column_boxes(width)[tesseract_calls + 1])
                            ELSE crops
  /\ im_pc' = IF two_column /\ tesseract_calls = 0 THEN "recognise" ELSE "returned"
  /\ UNCHANGED <<beside_image, far_vars, width, has_ocr, img, use_cloud_vision, has_cloud_vision, api_key,
                 two_column, im_error>>

\* Lines 817 and 820: image_to_string raises; nothing catches it.
TesseractRaises ==
  /\ im_pc = "recognise"
  /\ engine_calls' = Append(engine_calls, EngineCall("tesseract", "raised"))
  /\ im_error' = "TesseractError"
  /\ im_pc' = "raised"
  /\ UNCHANGED <<beside_image, rest_vars, has_ocr, img, use_cloud_vision, has_cloud_vision, api_key,
                 two_column, full_text>>

NextImage ==
  \/ CloudVisionReturns \/ CloudVisionRaises \/ SkipCloudVision
  \/ NoOcrEngine \/ OpenAndOrient \/ TesseractReturns \/ TesseractRaises

SpecImage == InitImage /\ [][NextImage]_vars

(***************************************************************************)
(* extract_vocab_with_ocr_table: the page loop and the merge.              *)
(***************************************************************************)
\* The values of the rotate argument: vocaaudio.py line 52.
RotateChoices == {0, 90, 180, 270}

InitOcr ==
  /\ call = "extract_vocab_with_ocr_table"
  /\ caller = ""
  /\ text = <<>>
  /\ pc = "pages"
  /\ vocab_list = <<>>
  /\ lines = <<>>
  /\ i = 0
  /\ current_number = None
  /\ current_word = None
  /\ simple_result = <<>>
  /\ total_pages \in 0..MaxPages
  /\ page_idx = 0
  /\ half_idx = 0
  /\ candidates = <<>>
  /\ seen = {}
  /\ unique_list = <<>>
  /\ rotate \in RotateChoices
  /\ detect_calls = 0
  /\ result = <<>>
  /\ MoreIdle

\* Lines 167-189: the page is rendered to an image and the image is turned,
\* by -rotate if rotate is not 0, else as detect_and_fix_orientation decides.
PageImage ==
  /\ pc = "pages"
  /\ page_idx < total_pages
  /\ IF rotate # 0
       THEN /\ img' = Rotate(0, -rotate)
            /\ UNCHANGED detect_calls
       ELSE /\ img' \in detect_and_fix_orientation(0, has_ocr)
            /\ detect_calls' = detect_calls + 1
  /\ width' \in Widths
  /\ crops' = <<>>
  /\ pc' = "halves"
  /\ UNCHANGED <<beside_page, far_vars, call, caller, text, vocab_list, scan_vars,
                 simple_result, total_pages, page_idx, half_idx, candidates, seen,
                 unique_list, rotate, result>>

\* Lines 194-203 for one half of a page: the engine's text is parsed and the
\* items are appended; the left half (0) comes before the right half (1).
OcrHalf ==
  /\ pc = "halves"
  /\ \E ocr \in OcrTexts :
        /\ text' = ocr
        /\ LET items == parse_ocr_vocab_text(ocr)
           IN /\ vocab_list' = vocab_list \o items
              /\ candidates' = Append(candidates, items)
  /\ crops' = Append(crops, column_boxes(width)[half_idx + 1])
  /\ half_idx' = IF half_idx = 0 THEN 1 ELSE 0
  /\ page_idx' = IF half_idx = 0 THEN page_idx ELSE page_idx + 1
  /\ pc' = IF half_idx = 0 THEN "halves" ELSE "pages"
  /\ UNCHANGED <<orient_vars, norm_vars, image_vars, cli_vars, far_vars, width, call,
                 caller, scan_vars, simple_result, total_pages, seen, unique_list, rotate,
                 detect_calls, result>>

\* Lines 208-210.
SortMerged ==
  /\ pc = "pages"
  /\ page_idx = total_pages
  /\ vocab_list' = SortedByNumber(vocab_list)
  /\ seen' = {}
  /\ unique_list' = <<>>
  /\ i' = 0
  /\ pc' = "dedup"
  /\ UNCHANGED <<more_vars, call, caller, text, lines, current_number, current_word,
                 simple_result, total_pages, page_idx, half_idx, candidates, rotate,
                 detect_calls, result>>

\* An item whose number is new, marked as seen but not appended.
DedupKeep_forgets ==
  /\ pc = "dedup"
  /\ i < Len(vocab_list)
  /\ vocab_list[i + 1].number \notin seen
  /\ seen' = seen \cup {vocab_list[i + 1].number}
  /\ i' = i + 1
  /\ UNCHANGED <<more_vars, call, caller, text, pc, vocab_list, lines, current_number, current_word,
                 simple_result, total_pages, page_idx, half_idx, candidates, unique_list,
                 rotate, detect_calls, result>>

\* Lines 211-214 for an item whose number is new.
DedupKeep ==
  /\ pc = "dedup"
  /\ i < Len(vocab_list)
  /\ vocab_list[i + 1].number \notin seen
  /\ seen' = seen \cup {vocab_list[i + 1].number}
  /\ unique_list' = Append(unique_list, vocab_list[i + 1])
  /\ i' = i + 1
  /\ UNCHANGED <<more_vars, call, caller, text, pc, vocab_list, lines, current_number, current_word,
                 simple_result, total_pages, page_idx, half_idx, candidates,
                 rotate, detect_calls, result>>

\* An item whose number was seen, appended all the same.
DedupSkip_appends ==
  /\ pc = "dedup"
  /\ i < Len(vocab_list)
  /\ vocab_list[i + 1].number \in seen
  /\ unique_list' = Append(unique_list, vocab_list[i + 1])
  /\ i' = i + 1
  /\ UNCHANGED <<more_vars, call, caller, text, pc, vocab_list, lines, current_number, current_word,
                 simple_result, total_pages, page_idx, half_idx, candidates, seen,
                 rotate, detect_calls, result>>

\* Lines 211-212 for an item whose number was seen.
DedupSkip ==
  /\ pc = "dedup"
  /\ i < Len(vocab_list)
  /\ vocab_list[i + 1].number \in seen
  /\ i' = i + 1
  /\ UNCHANGED <<more_vars, call, caller, text, pc, vocab_list, lines, current_number, current_word,
                 simple_result, ocr_vars, result>>

\* Line 216.
MergeReturn ==
  /\ pc = "dedup"
  /\ i = Len(vocab_list)
  /\ result' = unique_list
  /\ pc' = "done"
  /\ UNCHANGED <<more_vars, call, caller, text, vocab_list, scan_vars, simple_result, ocr_vars>>

NextOcr ==
  \/ PageImage \/ OcrHalf \/ SortMerged \/ DedupKeep \/ DedupSkip \/ MergeReturn

SpecOcr == InitOcr /\ [][NextOcr]_vars

(***************************************************************************)
(* main of vocaaudio.py: the extraction of the entries, lines 100-152.     *)
(***************************************************************************)
\* What the input file can hold: nothing, a comment, a record with checkbox
\* and tag, a two-line record, lines for every branch of the scanner, a
\* comma-separated line, a record whose number int() does not convert.
CliTexts ==
  { <<>>,
    <<"#", "c">>,
    <<"2", " ", BOX, " ", "c", "d", " ", "v", ".", " ", NA>>,
    <<"5", " ", "a", "b", LF, "n", ".", " ", GA>>,
    <<"5", " ", "a", "b", LF, "a", "b", LF, GA, LF, "5", " ", "c", "d", " ", NA>>,
    <<"c", "d", ",", GA>>,
    <<NINES, " ", "c", "d", " ", NA>> }

\* len(doc) of the input file when main has it recognised.
CliPageCounts == {0, 1}

\* The pdf_file argument: not given, naming no file, or naming a file with
\* a suffix of lines 81-83 or another one.
InputFiles == {"none", "missing", "txt", "pdf", "other"}

InitCli ==
  /\ call = "main"
  /\ ParserIdle
  /\ RestIdle
  /\ NormIdle
  /\ ImageIdle
  /\ has_ocr \in BOOLEAN
  /\ img = 0
  /\ o_pc = "idle"
  /\ osd_raised = FALSE
  /\ rotation = None
  /\ english_words_original = None
  /\ english_words_rotated = None
  /\ string_calls = 0
  /\ is_text_file = FALSE
  /\ args_ocr \in BOOLEAN
  /\ args_simple_parse \in BOOLEAN
  /\ args_rotate \in RotateChoices
  /\ cli_pc = "start"
  /\ file_text = None
  /\ cli_vocab_list = <<>>
  /\ attempts = <<>>
  /\ exit_code = None
  /\ args_list_voices \in BOOLEAN
  /\ args_preview \in BOOLEAN
  /\ input_file \in InputFiles
  /\ audio_calls = 0
  /\ main_success = None

\* open(file_path).read() and extract_text_from_pdf: the file holds the same
\* text each time it is read.
ReadsFile(text_) ==
  /\ IF file_text = None THEN text_ \in CliTexts ELSE text_ = file_text[1]
  /\ file_text' = Some(text_)

\* A call of parse_vocab_simple (directly or by load_vocab_from_text) or of
\* parse_vocab_table on the text of the file.
EntersParser(fn, first_pc) ==
  /\ \E text_ \in CliTexts :
        /\ ReadsFile(text_)
        /\ text' = text_
  /\ call' = fn
  /\ caller' = ""
  /\ pc' = first_pc
  /\ vocab_list' = <<>>
  /\ lines' = <<>>
  /\ i' = 0
  /\ current_number' = None
  /\ current_word' = None
  /\ simple_result' = <<>>
  /\ result' = <<>>
  /\ UNCHANGED ocr_vars

\* A call of extract_vocab_with_ocr_table with rotate_ as its rotate argument.
EntersOcr(rotate_) ==
  /\ call' = "extract_vocab_with_ocr_table"
  /\ caller' = ""
  /\ text' = <<>>
  /\ pc' = "pages"
  /\ vocab_list' = <<>>
  /\ total_pages' \in CliPageCounts
  /\ page_idx' = 0
  /\ half_idx' = 0
  /\ candidates' = <<>>
  /\ seen' = {}
  /\ unique_list' = <<>>
  /\ rotate' = rotate_
  /\ detect_calls' = 0
  /\ result' = <<>>
  /\ UNCHANGED <<scan_vars, simple_result, file_text>>

\* Lines 56-87: --list-voices ends the run before the input file is looked
\* at; an input that is absent, missing or of another kind ends it too.
CliStart ==
  /\ cli_pc = "start"
  /\ IF args_list_voices
       THEN exit_code' = Some(0) /\ cli_pc' = "exited" /\ UNCHANGED is_text_file
     ELSE IF input_file \in {"none", "missing", "other"}
       THEN exit_code' = Some(1) /\ cli_pc' = "exited" /\ UNCHANGED is_text_file
     ELSE /\ is_text_file' = (input_file = "txt")
          /\ cli_pc' = "extract"
          /\ UNCHANGED exit_code
  /\ UNCHANGED <<beside_cli, run_vars, parser_vars, args_ocr, args_simple_parse,
                 args_rotate, file_text, cli_vocab_list, attempts>>

\* Lines 105-126: the first extraction function, chosen by the file type and
\* the options.
CliPrimary ==
  /\ cli_pc = "extract"
  /\ IF is_text_file
       THEN /\ EntersParser("parse_vocab_simple", "two_line")
            /\ attempts' = Append(attempts, "load_vocab_from_text")
            /\ cli_pc' = "in_primary"
            /\ UNCHANGED exit_code
     ELSE IF args_ocr /\ ~has_ocr
       THEN /\ exit_code' = Some(1)
            /\ cli_pc' = "exited"
            /\ UNCHANGED <<parser_vars, file_text, attempts>>
     ELSE IF args_ocr
       THEN /\ EntersOcr(args_rotate)
            /\ attempts' = Append(attempts, "extract_vocab_with_ocr_table")
            /\ cli_pc' = "in_primary"
            /\ UNCHANGED exit_code
     ELSE IF args_simple_parse
       THEN /\ EntersParser("parse_vocab_simple", "two_line")
            /\ attempts' = Append(attempts, "parse_vocab_simple")
            /\ cli_pc' = "in_primary"
            /\ UNCHANGED exit_code
     ELSE /\ EntersParser("parse_vocab_table", "start")
          /\ attempts' = Append(attempts, "extract_vocab_from_pdf")
          /\ cli_pc' = "in_primary"
          /\ UNCHANGED exit_code
  /\ UNCHANGED <<beside_cli, run_vars, is_text_file, args_ocr, args_simple_parse, args_rotate,
                 cli_vocab_list>>

InCall == cli_pc \in {"in_primary", "in_cascade", "in_fallback"}
InLoad == InCall /\ attempts[Len(attempts)] = "load_vocab_from_text"

\* load_vocab_from_text, lines 430-436: what it does with the list
\* parse_vocab_simple returned.
LoadReturnCascade == InLoad /\ caller' = "load_vocab_from_text" /\ ReturnCascade
LoadStartCsv == InLoad /\ caller' = "load_vocab_from_text" /\ StartCsv

\* The function main called has returned: main's vocab_list is its list.
CliReturned ==
  /\ InCall
  /\ IF attempts[Len(attempts)] = "parse_vocab_simple"
       THEN pc = "simple_returned" /\ cli_vocab_list' = simple_result
       ELSE pc = "done" /\ cli_vocab_list' = result
  /\ pc' = "idle"
  /\ cli_pc' = IF cli_pc = "in_primary" THEN "after_primary"
               ELSE IF cli_pc = "in_cascade" THEN "after_cascade"
               ELSE "after_fallback"
  /\ UNCHANGED <<beside_cli, run_vars, call, caller, text, vocab_list, scan_vars, simple_result,
                 ocr_vars, result, is_text_file, args_ocr, args_simple_parse,
                 args_rotate, file_text, attempts, exit_code>>

\* The second method tried whatever the first one returned.
CliCascade_ignores_result ==
  /\ cli_pc = "after_primary"
  /\ IF ~args_ocr
       THEN /\ EntersParser("parse_vocab_simple", "two_line")
            /\ attempts' = Append(attempts, "parse_vocab_simple")
            /\ cli_pc' = "in_cascade"
       ELSE /\ cli_pc' = "after_cascade"
            /\ UNCHANGED <<parser_vars, file_text, attempts>>
  /\ UNCHANGED <<beside_cli, run_vars, is_text_file, args_ocr, args_simple_parse, args_rotate,
                 cli_vocab_list, exit_code>>

\* Lines 129-132.
CliCascade ==
  /\ cli_pc = "after_primary"
  /\ IF Len(cli_vocab_list) = 0 /\ ~args_ocr
       THEN /\ EntersParser("parse_vocab_simple", "two_line")
            /\ attempts' = Append(attempts, "parse_vocab_simple")
            /\ cli_pc' = "in_cascade"
       ELSE /\ cli_pc' = "after_cascade"
            /\ UNCHANGED <<parser_vars, file_text, attempts>>
  /\ UNCHANGED <<beside_cli, run_vars, is_text_file, args_ocr, args_simple_parse, args_rotate,
                 cli_vocab_list, exit_code>>

\* Lines 135-139: the call leaves rotate at its default.
CliOcrFallback ==
  /\ cli_pc = "after_cascade"
  /\ IF Len(cli_vocab_list) = 0 /\ has_ocr /\ ~args_ocr
       THEN /\ EntersOcr(0)
            /\ attempts' = Append(attempts, "extract_vocab_with_ocr_table")
            /\ cli_pc' = "in_fallback"
       ELSE /\ cli_pc' = "after_fallback"
            /\ UNCHANGED <<parser_vars, file_text, attempts>>
  /\ UNCHANGED <<beside_cli, run_vars, is_text_file, args_ocr, args_simple_parse, args_rotate,
                 cli_vocab_list, exit_code>>

\* Lines 142-144: an exception of the function called.
CliException ==
  /\ InCall
  /\ pc = "raised"
  /\ exit_code' = Some(1)
  /\ cli_pc' = "exited"
  /\ UNCHANGED <<beside_cli, run_vars, parser_vars, is_text_file, args_ocr, args_simple_parse,
                 args_rotate, file_text, cli_vocab_list, attempts>>

\* An empty list that goes on to the preview all the same.
CliExtracted_goes_on ==
  /\ cli_pc = "after_fallback"
  /\ cli_pc' = "extracted"
  /\ UNCHANGED <<beside_cli, run_vars, parser_vars, is_text_file, args_ocr,
                 args_simple_parse, args_rotate, file_text, cli_vocab_list, attempts,
                 exit_code>>

\* Lines 146-152: no entry ends the run; entries go on to the preview.
CliExtracted ==
  /\ cli_pc = "after_fallback"
  /\ IF cli_vocab_list = <<>>
       THEN exit_code' = Some(1) /\ cli_pc' = "exited"
       ELSE cli_pc' = "extracted" /\ UNCHANGED exit_code
  /\ UNCHANGED <<beside_cli, run_vars, parser_vars, is_text_file, args_ocr, args_simple_parse,
                 args_rotate, file_text, cli_vocab_list, attempts>>

\* Lines 154-168: the entries are listed, and --preview ends the run there.
CliPreview ==
  /\ cli_pc = "extracted"
  /\ IF args_preview
       THEN exit_code' = Some(0) /\ cli_pc' = "exited"
       ELSE cli_pc' = "config" /\ UNCHANGED exit_code
  /\ UNCHANGED <<beside_cli, run_vars, parser_vars, is_text_file, args_ocr,
                 args_simple_parse, args_rotate, file_text, cli_vocab_list, attempts>>

\* Lines 171-196: the call of generate_vocab_audio, which catches every
\* exception of the generation and returns a bool.
CliAudio ==
  /\ cli_pc = "config"
  /\ audio_calls' = audio_calls + 1
  /\ \E success_ \in BOOLEAN : main_success' = Some(success_)
  /\ cli_pc' = "audio_returned"
  /\ UNCHANGED <<beside_cli, parser_vars, is_text_file, args_ocr, args_simple_parse,
                 args_rotate, file_text, cli_vocab_list, attempts, exit_code,
                 args_list_voices, args_preview, input_file>>

\* Lines 200-215: the exit code tells whether the audio was made.
CliFinish ==
  /\ cli_pc = "audio_returned"
  /\ exit_code' = IF main_success[1] THEN Some(0) ELSE Some(1)
  /\ cli_pc' = "exited"
  /\ UNCHANGED <<beside_cli, run_vars, parser_vars, is_text_file, args_ocr,
                 args_simple_parse, args_rotate, file_text, cli_vocab_list, attempts>>

NextCli ==
  \/ CliStart \/ CliPrimary \/ CliReturned \/ CliCascade \/ CliOcrFallback
  \/ CliException \/ CliExtracted
  \/ CliPreview \/ CliAudio \/ CliFinish
  \/ TwoLine \/ OneLine
  \/ ScanFull \/ ScanNumWord \/ ScanMeaning \/ ScanBare \/ ScanSkip \/ ScanEnd
  \/ LoadReturnCascade \/ LoadStartCsv \/ CsvLine \/ CsvReturn
  \/ ParseTable \/ RaiseValueError
  \/ PageImage \/ OcrHalf \/ SortMerged \/ DedupKeep \/ DedupSkip \/ MergeReturn

SpecCli == InitCli /\ [][NextCli]_vars

(***************************************************************************)
(* parse_ocr_vocab_text, line by line.                                     *)
(***************************************************************************)
\* The texts of the parsers and a record with a word of one letter.
OcrLoopTexts == Texts \cup {<<"3", " ", "a", LF, GA>>}

\* Lines 221-225: the text is split and the index is at the first line.
InitOcrText ==
  /\ call = "parse_ocr_vocab_text"
  /\ caller = ""
  /\ text \in OcrLoopTexts
  /\ pc = "ocr_loop"
  /\ vocab_list = <<>>
  /\ lines = Split(text, LF, -1)
  /\ i = 0
  /\ current_number = None
  /\ current_word = None
  /\ simple_result = <<>>
  /\ total_pages = 0
  /\ page_idx = 0
  /\ half_idx = 0
  /\ candidates = <<>>
  /\ seen = {}
  /\ unique_list = <<>>
  /\ rotate = 0
  /\ detect_calls = 0
  /\ result = <<>>
  /\ MoreIdle

\* Line 234 for the line the while loop is at.
ocr_line_raises ==
  /\ HasLongNumber(text)
  /\ LET line == Strip(lines[i + 1])
         match == ReMatch(PatternOcrLine, line)
     IN match # None /\ int_raises(Group(line, match[1], 1))

\* Lines 226-264: one pass of the while loop.
OcrLine ==
  /\ pc = "ocr_loop"
  /\ i < Len(lines)
  /\ ~ocr_line_raises
  /\ LET nxt == ocr_step(lines, i, vocab_list)
     IN /\ i' = nxt.i
        /\ vocab_list' = nxt.vocab_list
  /\ UNCHANGED <<more_vars, call, caller, text, pc, lines, current_number, current_word,
                 simple_result, ocr_vars, result>>

\* Line 234: int() raises ValueError out of the function.
OcrLineRaises ==
  /\ pc = "ocr_loop"
  /\ i < Len(lines)
  /\ ocr_line_raises
  /\ pc' = "raised"
  /\ UNCHANGED <<more_vars, call, caller, text, vocab_list, scan_vars, simple_result,
                 ocr_vars, result>>

\* Line 266.
OcrLoopReturn ==
  /\ pc = "ocr_loop"
  /\ i >= Len(lines)
  /\ result' = vocab_list
  /\ pc' = "done"
  /\ UNCHANGED <<more_vars, call, caller, text, vocab_list, scan_vars, simple_result,
                 ocr_vars>>

NextOcrText == OcrLine \/ OcrLineRaises \/ OcrLoopReturn

SpecOcrText == InitOcrText /\ [][NextOcrText]_vars

(***************************************************************************)
(* VocaAudioApp: the generate and preview requests, the worker thread and  *)
(* the callbacks it gives to root.after.  The handlers of the Tk event     *)
(* loop run one at a time on the main thread; generate() runs on a thread  *)
(* of its own and interleaves with them.                                   *)
(***************************************************************************)
\* The threads one run of the model starts.
MaxWorkers == 3

Callback(kind, worker, success) == [kind |-> kind, worker |-> worker, success |-> success]

InitGui ==
  /\ call = "VocaAudioApp"
  /\ ParserIdle
  /\ OrientIdle
  /\ NormIdle
  /\ ImageIdle
  /\ CliIdle
  /\ CropIdle
  /\ TtsIdle
  /\ GemIdle
  /\ is_generating = FALSE
  /\ generate_btn = "normal"
  /\ has_words = FALSE
  /\ workers = <<>>
  /\ tk_queue = <<>>
  /\ message = ""

\* parse_text_input and load_file (lines 219-233, 291-336): self.vocab_list
\* becomes the list parsed, empty or not.
LoadWords ==
  /\ has_words' \in BOOLEAN
  /\ message' = IF has_words' THEN "parsed" ELSE "nothing_parsed"
  /\ UNCHANGED <<beside_gui, is_generating, generate_btn, workers, tk_queue>>

\* generate_audio_thread without the is_generating test of line 460.
generate_audio_thread_unguarded ==
  /\ Len(workers) < MaxWorkers
  /\ is_generating' = TRUE
  /\ generate_btn' = "disabled"
  /\ workers' = Append(workers, "running")
  /\ UNCHANGED message

\* generate_audio_thread, lines 458-503, run by a handler of the main thread.
generate_audio_thread ==
  IF is_generating
    THEN /\ message' = "already_generating"
         /\ UNCHANGED <<is_generating, generate_btn, workers>>
    ELSE /\ Len(workers) < MaxWorkers
         /\ is_generating' = TRUE
         /\ generate_btn' = "disabled"
         /\ workers' = Append(workers, "running")
         /\ UNCHANGED message

\* preview_audio, lines 431-438; its button is never disabled.
PreviewAudio ==
  /\ IF ~has_words
       THEN /\ message' = "no_words"
            /\ UNCHANGED <<is_generating, generate_btn, workers>>
       ELSE generate_audio_thread
  /\ UNCHANGED <<beside_gui, has_words, tk_queue>>

\* generate_audio, lines 440-456, the command of generate_btn: Tk runs it only
\* while the button is not disabled.  The save dialog may be cancelled.
GenerateAudio ==
  /\ generate_btn = "normal"
  /\ IF ~has_words
       THEN /\ message' = "no_words"
            /\ UNCHANGED <<is_generating, generate_btn, workers>>
       ELSE \E chosen \in BOOLEAN :
              IF chosen THEN generate_audio_thread
              ELSE UNCHANGED <<is_generating, generate_btn, workers, message>>
  /\ UNCHANGED <<beside_gui, has_words, tk_queue>>

\* Lines 474-496 on the worker thread: generate_vocab_audio returned success
\* and the completion callback is given to root.after.
WorkerCompletes ==
  \E w \in 1..Len(workers) :
    /\ workers[w] = "running"
    /\ \E success \in BOOLEAN :
          tk_queue' = Append(tk_queue, Callback("complete", w, success))
    /\ workers' = [workers EXCEPT ![w] = "returning"]
    /\ UNCHANGED <<beside_gui, is_generating, generate_btn, has_words, message>>

\* Lines 498-499: an exception in the try block (TTSConfig(...) reading the
\* Tk variables, tempfile.mktemp); the lambda that names e is given to
\* root.after inside the except block.
WorkerRaises ==
  \E w \in 1..Len(workers) :
    /\ workers[w] = "running"
    /\ tk_queue' = Append(tk_queue, Callback("error", w, FALSE))
    /\ workers' = [workers EXCEPT ![w] = "in_except"]
    /\ UNCHANGED <<beside_gui, is_generating, generate_btn, has_words, message>>

\* generate() returns and the thread ends; leaving the except block unbinds e.
WorkerEnds ==
  \E w \in 1..Len(workers) :
    /\ workers[w] \in {"returning", "in_except"}
    /\ workers' = [workers EXCEPT ![w] = "ended"]
    /\ UNCHANGED <<beside_gui, is_generating, generate_btn, has_words, tk_queue, message>>

\* Lines 505-530: the Tk loop runs the completion callback.
OnGenerateComplete ==
  /\ tk_queue # <<>>
  /\ Head(tk_queue).kind = "complete"
  /\ is_generating' = FALSE
  /\ generate_btn' = "normal"
  /\ message' = IF Head(tk_queue).success THEN "done" ELSE "failed"
  /\ tk_queue' = Tail(tk_queue)
  /\ UNCHANGED <<beside_gui, has_words, workers>>

\* Lines 499 and 532-538: the Tk loop runs the lambda while the worker is
\* still inside the except block, so e is bound and on_generate_error runs.
OnGenerateError ==
  /\ tk_queue # <<>>
  /\ Head(tk_queue).kind = "error"
  /\ workers[Head(tk_queue).worker] = "in_except"
  /\ is_generating' = FALSE
  /\ generate_btn' = "normal"
  /\ message' = "error"
  /\ tk_queue' = Tail(tk_queue)
  /\ UNCHANGED <<beside_gui, has_words, workers>>

\* Line 499: the Tk loop runs the lambda after the worker left the except
\* block: str(e) raises NameError (e is unbound), Tk reports the exception of
\* the callback and on_generate_error is never called.
ErrorCallbackFails ==
  /\ tk_queue # <<>>
  /\ Head(tk_queue).kind = "error"
  /\ workers[Head(tk_queue).worker] = "ended"
  /\ tk_queue' = Tail(tk_queue)
  /\ UNCHANGED <<beside_gui, is_generating, generate_btn, has_words, workers, message>>

NextGui ==
  \/ LoadWords \/ PreviewAudio \/ GenerateAudio
  \/ WorkerCompletes \/ WorkerRaises \/ WorkerEnds
  \/ OnGenerateComplete \/ OnGenerateError \/ ErrorCallbackFails

\* The thread, once started, runs to its end, and root.mainloop() runs every
\* callback given to root.after.
GuiFairness ==
  /\ WF_vars(WorkerCompletes \/ WorkerRaises)
  /\ WF_vars(WorkerEnds)
  /\ WF_vars(OnGenerateComplete \/ OnGenerateError \/ ErrorCallbackFails)

SpecGui == InitGui /\ [][NextGui]_vars /\ GuiFairness

(***************************************************************************)
(* generate_vocab_audio_async: the list of files it has concatenated.      *)
(***************************************************************************)
MaxEntries == 2
MaxRepeat == 2

\* --repeat and --meaning-repeat take any int; 0 and a negative number are
\* among them.
Repeats == -1..MaxRepeat

\* The files: f"{i:04d}_eng.mp3" and f"{i:04d}_kor.mp3" of entry i, and the
\* two files of silence every entry shares.
eng_file(i_) == <<"eng", i_>>
kor_file(i_) == <<"kor", i_>>
silence_between_repeat == <<"silence_repeat">>
silence_between_words == <<"silence_words">>

\* for _ in range(k): the appends of one pass, k times; range of a number
\* below 1 is empty.
RECURSIVE ForRange(_, _)
ForRange(k, appended) == IF k <= 0 THEN <<>> ELSE appended \o ForRange(k - 1, appended)

\* The meaning before the word.
entry_segments_meaning_first(i_) ==
  ForRange(meaning_repeat, <<kor_file(i_), silence_between_repeat>>)
    \o ForRange(english_repeat, <<eng_file(i_), silence_between_repeat>>)
    \o <<silence_between_words>>

\* Lines 159-168: what one pass of the loop appends to audio_segments.
entry_segments(i_) ==
  ForRange(english_repeat, <<eng_file(i_), silence_between_repeat>>)
    \o ForRange(meaning_repeat, <<kor_file(i_), silence_between_repeat>>)
    \o <<silence_between_words>>

InitTts ==
  /\ call = "generate_vocab_audio_async"
  /\ ParserIdle
  /\ OrientIdle
  /\ NormIdle
  /\ ImageIdle
  /\ CliIdle
  /\ CropIdle
  /\ GuiIdle
  /\ GemIdle
  /\ has_edge_tts \in BOOLEAN
  /\ total \in 0..MaxEntries
  /\ english_repeat \in Repeats
  /\ meaning_repeat \in Repeats
  /\ tts_pc = "start"
  /\ tts_i = 0
  /\ audio_segments = <<>>
  /\ file_list = None
  /\ tts_return = None

\* Lines 122-125.
TtsNoEdge ==
  /\ tts_pc = "start"
  /\ ~has_edge_tts
  /\ tts_return' = Some(FALSE)
  /\ tts_pc' = "returned"
  /\ UNCHANGED <<beside_tts, has_edge_tts, total, english_repeat, meaning_repeat, tts_i,
                 audio_segments, file_list>>

\* Lines 127-140: the list starts empty; the two files of silence are made.
TtsBegin ==
  /\ tts_pc = "start"
  /\ has_edge_tts
  /\ audio_segments' = <<>>
  /\ tts_i' = 0
  /\ tts_pc' = "loop"
  /\ UNCHANGED <<beside_tts, has_edge_tts, total, english_repeat, meaning_repeat,
                 file_list, tts_return>>

\* Lines 142-168: one entry.  generate_speech_edge catches what the service
\* raises, so the files are listed whether they were made or not.
TtsEntry ==
  /\ tts_pc = "loop"
  /\ tts_i < total
  /\ audio_segments' = audio_segments \o entry_segments(tts_i)
  /\ tts_i' = tts_i + 1
  /\ UNCHANGED <<beside_tts, has_edge_tts, total, english_repeat, meaning_repeat, tts_pc,
                 file_list, tts_return>>

\* Lines 171-175 and 90-110: concatenate_audio_files returns False for an
\* empty list, without pydub and when the export fails.
TtsConcatenate ==
  /\ tts_pc = "loop"
  /\ tts_i = total
  /\ file_list' = Some(audio_segments)
  /\ \E exported \in BOOLEAN : tts_return' = Some(audio_segments # <<>> /\ exported)
  /\ tts_pc' = "returned"
  /\ UNCHANGED <<beside_tts, has_edge_tts, total, english_repeat, meaning_repeat, tts_i,
                 audio_segments>>

NextTts == TtsNoEdge \/ TtsBegin \/ TtsEntry \/ TtsConcatenate

SpecTts == InitTts /\ [][NextTts]_vars

(***************************************************************************)
(* extract_vocab_with_gemini_vision: the models it asks, one after the     *)
(* other.  A text is a str as before; a run of characters without a digit  *)
(* is written as one element.                                              *)
(***************************************************************************)
\* Lines 521-525.
models_to_try == <<"gemini-1.5-flash-latest", "gemini-1.5-pro-latest", "gemini-pro-vision">>

RECURSIVE StrOfInt(_)
\* str(n) for n >= 0.
StrOfInt(n) ==
  IF n < 10 THEN <<DigitSeq[n + 1]>> ELSE Append(StrOfInt(n \div 10), DigitSeq[(n % 10) + 1])

\* '404' in s
Contains404(s) == \E k \in 1..(Len(s) - 2) : SubSeq(s, k, k + 2) = <<"4", "0", "4">>

\* The error objects of the service: code, status, message.
ApiStatus(code) == IF code = 404 THEN "NOT_FOUND"
                   ELSE IF code = 429 THEN "RESOURCE_EXHAUSTED" ELSE "INVALID_ARGUMENT"
ApiCodes == {404, 429, 400}
ApiMessages == { <<"quota exceeded">>, <<"image of ", "4", "0", "4", " bytes">> }

\* Line 563: f"{code} {status}. {error}", the last being str() of the dict.
ApiErrorText(code, message_) ==
  StrOfInt(code) \o <<" ", ApiStatus(code), ". ", "{'code': ">> \o StrOfInt(code)
    \o <<", 'status': '", ApiStatus(code), "', 'message': '">> \o message_ \o <<"'}">>

\* str() of what requests.post raises when no response arrives.
PostErrors == { <<"Read timed out.">>, <<"port=", "4", "0", "4", "0", "): Connection refused">> }

\* The "number" of an item of the JSON list: a JSON number, a JSON string,
\* or no such key.
JsonInt(n) == [type |-> "int", n |-> n, s |-> <<>>]
JsonStr(s) == [type |-> "str", n |-> 0, s |-> s]
Absent == [type |-> "absent", n |-> 0, s |-> <<>>]
JsonItem(number, word, meaning) == [number |-> number, word |-> word, meaning |-> meaning]

\* What json.loads makes of the text of the first candidate: None where it
\* raises JSONDecodeError, or the list of items.
JsonDatas ==
  { None,
    Some(<<>>),
    Some(<<JsonItem(JsonInt(301), <<"a">>, <<GA>>)>>),
    Some(<<JsonItem(JsonStr(<<"7">>), <<"a", "b">>, <<NA>>),
           JsonItem(Absent, <<"c">>, <<GA>>)>>),
    Some(<<JsonItem(JsonInt(1), <<"a">>, <<GA>>),
           JsonItem(JsonStr(<<"4", "0", "4", "a">>), <<"b">>, <<NA>>)>>),
    Some(<<JsonItem(JsonStr(<<"x">>), <<"a">>, <<GA>>)>>) }

\* What one request ends with: requests.post raises; the body is no JSON
\* (response.json() raises, and json_error tells whether the exception is a
\* json.JSONDecodeError in this build of requests); an error object; no
\* candidates; a candidate without content; a candidate with a text.
Responses ==
  {[kind |-> "post_raises", text |-> t] : t \in PostErrors}
    \cup {[kind |-> "body_not_json", json_error |-> b] : b \in BOOLEAN}
    \cup {[kind |-> "error", code |-> c, message |-> m] : c \in ApiCodes, m \in ApiMessages}
    \cup {[kind |-> "no_candidates"], [kind |-> "no_content"]}
    \cup {[kind |-> "text", data |-> d] : d \in JsonDatas}

\* Continue, return and raise, as one pass of the loop ends; recorded is the
\* new value of last_error.
Continues(recorded) == [ends |-> "continue", recorded |-> recorded]
Returns(list) == [ends |-> "return", list |-> list]
Raises(text_) == [ends |-> "raise", recorded |-> Some(text_)]

\* Lines 586-590: every caught exception is recorded, and raised again
\* whatever its text holds.
Caught_always_raises(text_) == Raises(text_)

\* Lines 586-590: except Exception as e: last_error = e; raise unless
\* '404' in str(e).
Caught(text_) == IF Contains404(text_) THEN Continues(Some(text_)) ELSE Raises(text_)

RECURSIVE BuildEntries(_, _)
\* Lines 577-583: the items become entries in order; int() of a number that
\* is no literal raises ValueError.
BuildEntries(data, built) ==
  IF data = <<>> THEN Returns(built)
  ELSE LET item == Head(data)
           number == IF item.number.type = "absent" THEN Some(Len(built) + 1)
                     ELSE IF item.number.type = "int" THEN Some(item.number.n)
                     ELSE IntOf(item.number.s)
       IN IF number = None
            THEN Caught(<<"invalid literal for int() with base ", "1", "0", ": '">>
                          \o item.number.s \o <<"'">>)
            ELSE BuildEntries(Tail(data),
                   Append(built, VocabItem(number[1], item.word, item.meaning, None)))

\* Lines 528-590: one pass of the loop, for the response r.
OnePass(r) ==
  IF r.kind = "post_raises" THEN Caught(r.text)
  ELSE IF r.kind = "body_not_json"
    THEN IF r.json_error THEN Continues(last_error)
         ELSE Caught(<<"Expecting value: line ", "1", " column ", "1", " (char ", "0", ")">>)
  ELSE IF r.kind = "error"
    THEN IF r.code = 404 THEN Continues(last_error)
         ELSE Caught(ApiErrorText(r.code, r.message))
  ELSE IF r.kind = "no_candidates" THEN Continues(last_error)
  ELSE IF r.kind = "no_content" THEN Caught(<<"'content'">>)
  ELSE IF r.data = None THEN Continues(last_error)
  ELSE BuildEntries(r.data[1], <<>>)

InitGem ==
  /\ call = "extract_vocab_with_gemini_vision"
  /\ ParserIdle
  /\ OrientIdle
  /\ NormIdle
  /\ ImageIdle
  /\ CliIdle
  /\ CropIdle
  /\ GuiIdle
  /\ TtsIdle
  /\ gem_pc = "loop"
  /\ model_idx = 0
  /\ last_error = None
  /\ requested = <<>>
  /\ responses = <<>>
  /\ gem_return = None
  /\ gem_raised = None

\* for model_name in models_to_try: one pass.
GemTryModel ==
  /\ gem_pc = "loop"
  /\ model_idx < Len(models_to_try)
  /\ requested' = Append(requested, models_to_try[model_idx + 1])
  /\ \E r \in Responses :
        /\ responses' = Append(responses, r)
        /\ LET pass == OnePass(r)
           IN IF pass.ends = "return"
                THEN /\ gem_return' = Some(pass.list)
                     /\ gem_pc' = "returned"
                     /\ UNCHANGED <<model_idx, last_error, gem_raised>>
              ELSE IF pass.ends = "raise"
                THEN /\ last_error' = pass.recorded
                     /\ gem_raised' = pass.recorded
                     /\ gem_pc' = "raised"
                     /\ UNCHANGED <<model_idx, gem_return>>
              ELSE /\ last_error' = pass.recorded
                   /\ model_idx' = model_idx + 1
                   /\ UNCHANGED <<gem_pc, gem_return, gem_raised>>
  /\ UNCHANGED beside_gem

\* Lines 592-595: every model has been asked.
GemExhausted ==
  /\ gem_pc = "loop"
  /\ model_idx = Len(models_to_try)
  /\ IF last_error # None
       THEN gem_raised' = last_error /\ gem_pc' = "raised" /\ UNCHANGED gem_return
       ELSE gem_return' = Some(<<>>) /\ gem_pc' = "returned" /\ UNCHANGED gem_raised
  /\ UNCHANGED <<beside_gem, model_idx, last_error, requested, responses>>

NextGem == GemTryModel \/ GemExhausted

SpecGem == InitGem /\ [][NextGem]_vars

(***************************************************************************)
(* Properties.                                                             *)
(***************************************************************************)
RECURSIVE Concat(_)
Concat(lists) == IF lists = <<>> THEN <<>> ELSE Head(lists) \o Concat(Tail(lists))

AscendingByNumber(list) ==
  \A k \in 1..(Len(list) - 1) : list[k].number <= list[k + 1].number

UniqueNumbers(list) ==
  \A j, k \in 1..Len(list) : j # k => list[j].number # list[k].number

\* The first entry of list with the number n.
FirstWithNumber(list, n) ==
  list[CHOOSE k \in 1..Len(list) :
         /\ list[k].number = n
         /\ \A j \in 1..(k - 1) : list[j].number # n]

Merged == call = "extract_vocab_with_ocr_table" /\ pc = "done"

\* C1: the list the merge step returns is ascending by number.
C1_MergeSorted == Merged => AscendingByNumber(result)

\* C1 witness: a merge of candidates that arrived out of order returned at
\* least two entries.
C1_Witness ==
  /\ Merged
  /\ Len(result) >= 2
  /\ ~AscendingByNumber(Concat(candidates))

\* C2: no two entries of the list the merge step returns share a number.
C2_MergeUnique == Merged => UniqueNumbers(result)

\* C2 witness: the candidates repeated a number and the merge returned.
C2_Witness ==
  /\ Merged
  /\ ~UniqueNumbers(Concat(candidates))
  /\ result # <<>>

\* C3: of the candidates sharing a number the merge step keeps the one that
\* came first in processing order (page by page, left half before right
\* half, line by line).
C3_FirstCandidateWins ==
  Merged =>
    \A k \in 1..Len(result) :
      result[k] = FirstWithNumber(Concat(candidates), result[k].number)

\* C3 witness: two different candidates shared a number, another number
\* came between them, and the merge returned.
C3_Witness ==
  /\ Merged
  /\ LET all == Concat(candidates)
     IN \E j, k, l \in 1..Len(all) :
          /\ j < k /\ k < l
          /\ all[j].number = all[l].number
          /\ all[j] # all[l]
          /\ all[k].number # all[j].number

\* The result of each pattern strategy taken alone on a text.
TwoLineStrategy(t) == SortedByNumber(pattern_items(t, ReFindAll(PatternTwoLine, t)))
OneLineStrategy(t) == SortedByNumber(pattern_items(t, ReFindAll(PatternOneLine, t)))

InCascadeCall == call = "parse_vocab_simple"

\* C4: parse_vocab_simple returns the two-line strategy's result when that
\* is non-empty, else the one-line strategy's when that is non-empty, else
\* the scanner's; a later stage is entered only after the earlier ones found
\* nothing and starts from an empty list, so no entry of another stage is in
\* the result.
C4_FirstStrategyWins ==
  InCascadeCall =>
    /\ pc = "one_line" => TwoLineStrategy(text) = <<>> /\ vocab_list = <<>>
    /\ (pc = "scan" /\ i = 0) =>
         /\ TwoLineStrategy(text) = <<>>
         /\ OneLineStrategy(text) = <<>>
         /\ vocab_list = <<>>
    /\ pc = "simple_returned" =>
         IF TwoLineStrategy(text) # <<>> THEN simple_result = TwoLineStrategy(text)
         ELSE IF OneLineStrategy(text) # <<>>
                THEN simple_result = OneLineStrategy(text)
                ELSE simple_result = vocab_list /\ i = Len(lines)

\* C4 witness: a text both patterns match, with different results, for
\* which parse_vocab_simple has returned.
C4_Witness ==
  /\ InCascadeCall
  /\ pc = "simple_returned"
  /\ TwoLineStrategy(text) # <<>>
  /\ OneLineStrategy(text) # <<>>
  /\ TwoLineStrategy(text) # OneLineStrategy(text)

\* The word a line makes pending in the scanner, if it makes one pending.
PendingWordOf(line) ==
  IF scan_branch(line, None) = "num_word"
    THEN Some(Strip(Group(line, num_word_match(line)[1], 2)))
  ELSE IF scan_branch(line, None) = "bare" THEN Some(Strip(line))
  ELSE None

HasWord(list, word) == \E k \in 1..Len(list) : list[k].word = word

\* C5: when the scanner has run, every line that made a word pending has an
\* entry carrying that word in the list it returns.
C5_NoPendingWordDropped ==
  (InCascadeCall /\ pc = "simple_returned") =>
    \A k \in 1..Len(lines) :
      PendingWordOf(lines[k]) # None =>
        HasWord(simple_result, PendingWordOf(lines[k])[1])

\* C6: the list parse_vocab_simple returns is ascending by number,
\* whichever stage produced it.
C6_SimpleSorted ==
  (InCascadeCall /\ pc = "simple_returned") => AscendingByNumber(simple_result)

\* C7: the list load_vocab_from_text returns holds no number twice.
C7_LoadUnique ==
  (caller = "load_vocab_from_text" /\ pc = "done") => UniqueNumbers(result)

NoEmptyField(list) ==
  \A k \in 1..Len(list) : list[k].word # <<>> /\ list[k].meaning # <<>>

\* C8: every entry that parse_vocab_table, parse_ocr_vocab_text,
\* parse_vocab_simple or load_vocab_from_text returns has a non-empty word
\* and a non-empty meaning.
C8_NoEmptyField ==
  /\ pc = "simple_returned" => NoEmptyField(simple_result)
  /\ pc = "done" => NoEmptyField(result)

\* C8 witness: a returned list holds a scanner record without a discovered
\* meaning, carrying the placeholder.
C8_Witness ==
  /\ pc = "done"
  /\ \E k \in 1..Len(result) : result[k].meaning = Placeholder

RECURSIVE csv_entries(_, _, _, _)
\* What the CSV loop of impl builds from the lines from index idx on.
csv_entries(impl, ls, idx, acc) ==
  IF idx >= Len(ls) THEN acc
  ELSE csv_entries(impl, ls, idx + 1, csv_step(impl, ls[idx + 1], idx, acc))

\* C9: the CSV loop runs only when parse_vocab_simple returned an empty
\* list; when it returned entries, that list is the result, unchanged.
C9_CsvOnlyAfterEmptyCascade ==
  InCascadeCall =>
    /\ pc = "csv" => simple_result = <<>>
    /\ (pc = "done" /\ simple_result # <<>>) => result = simple_result

\* C9 witness: the cascade returned entries for a text whose lines the CSV
\* loop would have turned into entries too.
C9_Witness ==
  /\ InCascadeCall
  /\ pc = "done"
  /\ simple_result # <<>>
  /\ csv_entries(caller, Split(text, LF, -1), 0, <<>>) # <<>>

\* The line gives the entry its number: three fields, the first an int.
NumberFromLine(raw) ==
  LET parts == Split(Strip(raw), ",", 2)
  IN Len(parts) >= 3 /\ IntOf(parts[1]) # None

\* C10: in every implementation of the CSV fallback, an entry whose number
\* is not taken from its line gets the 1-based index of that line.
C10_LineIndexSubstituted ==
  [][(/\ pc = "csv"
      /\ i < Len(lines)
      /\ Len(vocab_list') = Len(vocab_list) + 1
      /\ ~NumberFromLine(lines[i + 1]))
     => vocab_list'[Len(vocab_list')].number = i + 1]_vars

\* C10 in load_vocab_from_text alone.
C10_LineIndexInLoad ==
  [][(/\ caller = "load_vocab_from_text"
      /\ pc = "csv"
      /\ i < Len(lines)
      /\ Len(vocab_list') = Len(vocab_list) + 1
      /\ ~NumberFromLine(lines[i + 1]))
     => vocab_list'[Len(vocab_list')].number = i + 1]_vars

OrientReturned == call = "detect_and_fix_orientation" /\ o_pc = "returned"

\* C11: when image_to_osd raised, detect_and_fix_orientation returns the image
\* turned by 180 degrees exactly when both passes gave a count and the count of
\* the rotated pass is more than 1.5 times the count of the original pass; in
\* every other case it returns the image as it was given.
C11_HeuristicThreshold ==
  (OrientReturned /\ osd_raised) =>
     /\ img \in {0, 180}
     /\ img = 180 <=>
          /\ english_words_original # None
          /\ english_words_rotated # None
          /\ 2 * english_words_rotated[1] > 3 * english_words_original[1]

\* 16 words against 10: the image comes back turned.
C11_Witness ==
  /\ OrientReturned /\ osd_raised
  /\ english_words_original = Some(10) /\ english_words_rotated = Some(16)
  /\ img = 180

\* 15 words against 10 and 0 against 0: the image comes back as given.
C11_AtThreshold ==
  /\ OrientReturned /\ osd_raised
  /\ english_words_original = Some(10) /\ english_words_rotated = Some(15)
  /\ img = 0

C11_NoWords ==
  /\ OrientReturned /\ osd_raised
  /\ english_words_original = Some(0) /\ english_words_rotated = Some(0)
  /\ img = 0

\* C12: when image_to_osd answered, the image returned is the given one turned
\* by minus the reported angle (the given one when the angle is 0), and no
\* pass of the word-count heuristic was made.
C12_DetectedAngleApplied ==
  (call = "detect_and_fix_orientation" /\ rotation # None) =>
     /\ o_pc = "returned"
     /\ ~osd_raised
     /\ img = (360 - rotation[1]) % 360
     /\ string_calls = 0
     /\ english_words_original = None
     /\ english_words_rotated = None

C12_Witness == OrientReturned /\ rotation = Some(90) /\ img = 270

C12_ZeroAngle == OrientReturned /\ rotation = Some(0) /\ img = 0

\* C14: the meaning normalization is idempotent: applied to its own output it
\* returns that output unchanged, for every input string.
C14_NormalizeIdempotent == Len(cleaned) = 2 => cleaned[2] = cleaned[1]

\* The same for the strings parse_ocr_vocab_text normalizes: stripped lines
\* that contain a Hangul syllable.
C14_IdempotentOnMeaningLines ==
  (Len(cleaned) = 2 /\ Strip(raw_meaning) = raw_meaning /\ ReSearch(HasHangul, raw_meaning) # None)
     => cleaned[2] = cleaned[1]

ExampleEntry(pos) ==
  VocabItem(51, <<"e", "m", "p", "t", "y">>, <<BI, EO, " ", ISS, NEUN>>, pos)

\* What a two-line matcher returned for the example: parse_ocr_vocab_text, or
\* stage 1 of parse_vocab_simple.
TwoLineReturned ==
  IF call = "parse_ocr_vocab_text" /\ pc = "done" THEN Some(result)
  ELSE IF call = "parse_vocab_simple" /\ pc = "simple_returned" THEN Some(simple_result)
  ELSE None

\* C15: for a number+word line followed by a meaning line that starts with a
\* part-of-speech tag, the two-line matcher emits one entry whose meaning has
\* the tag removed and whose pos holds the tag: 51, "empty", the meaning
\* without "a. ", pos "a".
C15_TwoLineKeepsTag ==
  (text = ExampleTwoLine /\ TwoLineReturned # None) =>
     TwoLineReturned[1] = <<ExampleEntry(Some(<<"a">>))>>

\* What the matchers return instead: the same entry without a pos.
C15_TwoLineDropsTag ==
  (text = ExampleTwoLine /\ TwoLineReturned # None) =>
     TwoLineReturned[1] = <<ExampleEntry(None)>>

\* C16: for any text, parse_vocab_simple and the parsing of
\* load_vocab_from_text (and of its two copies) never raise: they return a
\* list, and the list is empty when no stage and no CSV line gives an entry.
C16_NeverRaises == call = "parse_vocab_simple" => pc # "raised"

\* The texts without a number too long for int() never raise.
C16_NoRaiseWithoutLongNumber ==
  (call = "parse_vocab_simple" /\ ~HasLongNumber(text)) => pc # "raised"

\* A text nothing matches gives the empty list.
C16_EmptyResult ==
  /\ call = "parse_vocab_simple" /\ pc = "done"
  /\ text = <<"#", "c">>
  /\ result = <<>>

\* The scanner is at a line that the branch b takes.
AtBranch(b) == Scanning /\ scan_branch(lines[i + 1], current_word) = b

\* C18: a word that becomes pending from a bare-word line has no number: no
\* number read from an earlier line stays with it, so the record emitted for
\* it is numbered by position.
C18_BareWordHasNoNumber ==
  [][AtBranch("bare") => current_number' = None]_vars

\* The scanner is about to emit the record of a pending word that has no
\* number: at a number+word line, a meaning line, a bare word or the end.
FlushesNumberless ==
  /\ pc = "scan"
  /\ Truthy(current_word)
  /\ current_number = None
  /\ \/ i = Len(lines)
     \/ AtBranch("num_word") \/ AtBranch("meaning") \/ AtBranch("bare")

\* C19: the number the scanner gives to the record of a word that never had
\* one is not the number of an entry it has emitted already.
C19_FreshNumber ==
  [][FlushesNumberless =>
       /\ Len(vocab_list') = Len(vocab_list) + 1
       /\ \A k \in 1..Len(vocab_list) :
             vocab_list[k].number # vocab_list'[Len(vocab_list')].number]_vars

\* The scanner is about to replace or end a pending word that got no
\* meaning: at a number+word line, a bare word or the end of the lines.
ReplacesPending ==
  /\ pc = "scan"
  /\ Truthy(current_word)
  /\ i = Len(lines) \/ AtBranch("num_word") \/ AtBranch("bare")

\* C20: when the scanner replaces or ends a pending word that got no meaning,
\* it first appends the record of that word, with the pending number and the
\* placeholder meaning; the scanner only ever appends, so this record comes
\* before any record of the new pending word.
C20_FlushBeforeReplace ==
  [][/\ ReplacesPending =>
          /\ Len(vocab_list') = Len(vocab_list) + 1
          /\ SubSeq(vocab_list', 1, Len(vocab_list)) = vocab_list
          /\ LET flushed == vocab_list'[Len(vocab_list')]
             IN /\ flushed.word = current_word[1]
                /\ flushed.meaning = Placeholder
                /\ current_number # None => flushed.number = current_number[1]
     /\ pc = "scan" =>
          /\ Len(vocab_list') >= Len(vocab_list)
          /\ SubSeq(vocab_list', 1, Len(vocab_list)) = vocab_list]_vars

\* A word is pending behind the flushed record of the word it replaced.
C20_Witness ==
  /\ pc = "scan"
  /\ Truthy(current_word)
  /\ vocab_list # <<>>
  /\ vocab_list[Len(vocab_list)].meaning = Placeholder

\* C17: when a call to the recognition engine fails, extract_text_from_image
\* ends with that failure: the failed call is its last engine call and an
\* exception leaves the function; the failure is not swallowed and no other
\* engine is tried.
C17_EngineFailureSurfaces ==
  call = "extract_text_from_image" =>
     \A k \in 1..Len(engine_calls) :
        engine_calls[k].outcome = "raised" =>
           k = Len(engine_calls) /\ im_pc = "raised"

\* The same for the calls of pytesseract alone.
C17_TesseractFailureSurfaces ==
  call = "extract_text_from_image" =>
     \A k \in 1..Len(engine_calls) :
        (engine_calls[k].engine = "tesseract" /\ engine_calls[k].outcome = "raised") =>
           k = Len(engine_calls) /\ im_pc = "raised"

\* A text returned by pytesseract after Cloud Vision had failed.
C17_FallbackAfterFailure ==
  /\ call = "extract_text_from_image" /\ im_pc = "returned"
  /\ Len(engine_calls) >= 2
  /\ engine_calls[1] = EngineCall("cloud_vision", "raised")
  /\ engine_calls[Len(engine_calls)] = EngineCall("tesseract", "text")

\* main has extract_vocab_with_ocr_table running.
CliInOcr == cli_pc \in {"in_primary", "in_fallback"} /\ call = "extract_vocab_with_ocr_table"

\* C13: with a rotation given (any of 0, 90, 180, 270),
\* extract_vocab_with_ocr_table never calls detect_and_fix_orientation and
\* turns every page by exactly that rotation; and the rotation chosen on the
\* command line is the one applied on every path of main that reaches it.
C13_ForcedRotationApplied ==
  CliInOcr =>
     /\ rotate = args_rotate
     /\ detect_calls = 0
     /\ pc = "halves" => img = Rotate(0, -args_rotate)

\* What holds instead: a rotation other than 0 that reaches
\* extract_vocab_with_ocr_table is applied to every page without detection,
\* and the --ocr path passes the rotation of the command line.
C13_NonZeroRotationApplied ==
  (call = "extract_vocab_with_ocr_table" /\ rotate # 0) =>
     /\ detect_calls = 0
     /\ pc = "halves" => img = Rotate(0, -rotate)

C13_OcrOptionPassesRotation ==
  (CliInOcr /\ cli_pc = "in_primary") => rotate = args_rotate

\* The fallback path reached with a rotation chosen: detection runs instead.
C13_FallbackDropsRotation ==
  /\ CliInOcr /\ cli_pc = "in_fallback"
  /\ args_rotate = 90
  /\ rotate = 0
  /\ detect_calls = 1

\* The scanner is at a line with a Hangul syllable that is not a whole
\* record (number, word and meaning) by itself.
AtMeaningLine ==
  /\ pc = "scan"
  /\ i < Len(lines)
  /\ ReSearch(HasHangul, lines[i + 1]) # None
  /\ scan_branch(lines[i + 1], current_word) # "full"

\* The record a meaning line makes of the pending number and word.
MeaningRecord ==
  VocabItem(IF current_number = None THEN Len(vocab_list) + 1 ELSE current_number[1],
            current_word[1],
            CollapseWs(ReSub(LeadingPos, <<>>, lines[i + 1])),
            None)

C21_NoPending ==
  /\ pc = "scan"
  /\ i = 1
  /\ ReSearch(HasHangul, lines[1]) # None
  /\ full_match(lines[1]) = None
  /\ vocab_list = <<>>
  /\ current_word = None

\* The while loop of parse_ocr_vocab_text is at a number+word line.
AtOcrRecordLine ==
  /\ pc = "ocr_loop"
  /\ i < Len(lines)
  /\ ReMatch(PatternOcrLine, Strip(lines[i + 1])) # None

\* The line after the one the loop is at holds a Hangul syllable.
NextLineHasHangul ==
  i + 1 < Len(lines) /\ ReSearch(HasHangul, Strip(lines[i + 2])) # None

\* What follows the number and the word on the line the loop is at.
RestOfLine ==
  LET line == Strip(lines[i + 1])
  IN Strip(SubSeq(line, ReMatch(PatternOcrLine, line)[1].pos, Len(line)))

\* The list after the pass: unchanged, or one entry more whose meaning is m.
EmitsAtMostWithMeaning(m) ==
  \/ vocab_list' = vocab_list
  \/ /\ Len(vocab_list') = Len(vocab_list) + 1
     /\ SubSeq(vocab_list', 1, Len(vocab_list)) = vocab_list
     /\ vocab_list'[Len(vocab_list')].meaning = m

\* C22: in parse_ocr_vocab_text, when the line after a number+word line holds a
\* Hangul syllable, that line is the meaning and the loop goes on behind it, so
\* it is never examined as the start of a record; the rest of the number+word
\* line is the meaning only when the following line gave none; and when
\* neither holds a Hangul syllable the line emits no entry.
C22_NextLineIsMeaning ==
  [][(AtOcrRecordLine /\ pc' = "ocr_loop") =>
        IF NextLineHasHangul
          THEN /\ i' = i + 2
               /\ EmitsAtMostWithMeaning(clean_meaning(Strip(lines[i + 2])))
        ELSE IF ReSearch(HasHangul, RestOfLine) # None
          THEN /\ i' = i + 1
               /\ EmitsAtMostWithMeaning(clean_meaning(RestOfLine))
        ELSE /\ i' = i + 1
             /\ vocab_list' = vocab_list]_vars

\* The first line was a number+word line and the second, with a Hangul
\* syllable, became its meaning: both are behind the index.
C22_Witness ==
  /\ pc = "ocr_loop"
  /\ i = 2
  /\ ReMatch(PatternOcrLine, Strip(lines[1])) # None
  /\ ReSearch(HasHangul, Strip(lines[2])) # None
  /\ Len(vocab_list) = 1
  /\ vocab_list[1].meaning = clean_meaning(Strip(lines[2]))

\* The second line was itself a numbered record and was taken as the meaning
\* of the first.
C22_RecordLineSwallowed ==
  /\ C22_Witness
  /\ ReMatch(PatternOcrLine, Strip(lines[2])) # None

\* The meaning came from the rest of the first line.
C22_SameLineMeaning ==
  /\ pc = "ocr_loop"
  /\ i = 1
  /\ Len(vocab_list) = 1

\* The boxes of crops that hold the pixel column c.
BoxesWith(c) == {k \in 1..Len(crops) : crops[k][1] <= c /\ c < crops[k][2]}

\* C23: for every width w >= 1 of a page image, the crops of
\* extract_vocab_with_ocr_table are the column ranges [0, w div 2) and
\* [w div 2, w), taken in this order, left before right: once both are taken,
\* every pixel column of the image lies in exactly one of them, for odd w too;
\* and each crop is recognised and parsed before the next is taken.
C23_ColumnSplit ==
  (call = "extract_vocab_with_ocr_table" /\ width >= 1) =>
     /\ Len(crops) <= 2
     /\ Len(crops) >= 1 => crops[1] = <<0, width \div 2>>
     /\ Len(crops) = 2 =>
          /\ crops[2] = <<width \div 2, width>>
          /\ \A c \in 0..(width - 1) : Cardinality(BoxesWith(c)) = 1
     /\ pc = "halves" => Len(crops) = half_idx /\ Len(candidates) = 2 * page_idx + half_idx

\* Both halves of a page of odd width have been recognised.
C23_Witness ==
  /\ call = "extract_vocab_with_ocr_table"
  /\ width = 3
  /\ Len(crops) = 2
  /\ Len(candidates) = 2

\* The same split in extract_text_from_image with two_column.
C23_ImageColumns ==
  (call = "extract_text_from_image" /\ im_pc = "returned" /\ two_column /\ width >= 1) =>
     /\ crops = << <<0, width \div 2>>, <<width \div 2, width>> >>
     /\ \A c \in 0..(width - 1) : Cardinality(BoxesWith(c)) = 1

NumbersOf(list) == {list[k].number : k \in 1..Len(list)}
EntriesOf(list) == {list[k] : k \in 1..Len(list)}

\* C24: the merge step of extract_vocab_with_ocr_table neither loses nor
\* invents a number: the numbers of the returned list are exactly the numbers
\* of the candidate lists of all pages and halves, and every returned entry is
\* one of the candidate entries, unmodified.
C24_MergeKeepsNumbers ==
  Merged =>
    /\ NumbersOf(result) = NumbersOf(Concat(candidates))
    /\ EntriesOf(result) \subseteq EntriesOf(Concat(candidates))

\* The merge returned for candidates with several numbers, one of them repeated.
C24_Witness ==
  /\ Merged
  /\ Cardinality(NumbersOf(Concat(candidates))) >= 2
  /\ Len(Concat(candidates)) > Len(result)
  /\ Len(result) >= 2

\* C25: in the GUI, once a generation has been started (is_generating is
\* True), is_generating eventually is False again and the generate button is
\* enabled again, whether the worker ends with success, with failure or with
\* an exception.
C25_GeneratingEnds ==
  is_generating ~> (~is_generating /\ generate_btn = "normal")

\* The worker raised, its thread ended, the error callback failed on the
\* unbound e: is_generating stays True and the button disabled for good.
C25_StuckAfterError ==
  /\ is_generating
  /\ generate_btn = "disabled"
  /\ tk_queue = <<>>
  /\ \A w \in 1..Len(workers) : workers[w] = "ended"

\* What holds: the completion callback, for success and for failure, resets
\* is_generating and enables the button.
C25_CompletionResets ==
  [][(tk_queue # <<>> /\ Head(tk_queue).kind = "complete" /\ tk_queue' = Tail(tk_queue))
        => (~is_generating' /\ generate_btn' = "normal")]_vars

\* The threads that have not ended, and those still generating (their
\* callback is not yet given to root.after).
AliveWorkers == {w \in 1..Len(workers) : workers[w] # "ended"}
RunningWorkers == {w \in 1..Len(workers) : workers[w] = "running"}

\* A step that starts no worker.
StartsNoWorker == Len(workers') = Len(workers)

\* A step that runs the completion or error callback of the worker started
\* last.
RunsCallbackOfLastWorker ==
  /\ tk_queue # <<>>
  /\ tk_queue' = Tail(tk_queue)
  /\ Head(tk_queue).worker = Len(workers)

\* C26: in the GUI at most one worker thread exists at any time: a request
\* made while is_generating is True starts no worker, and is_generating
\* becomes False only in the completion or error callback of the worker that
\* is running.
C26_AtMostOneThread ==
  /\ [](Cardinality(AliveWorkers) <= 1)
  /\ [][is_generating => StartsNoWorker]_vars
  /\ [][(is_generating /\ ~is_generating') => RunsCallbackOfLastWorker]_vars

\* C26 as it holds: at most one worker is generating at any time, a thread
\* that has given its callback to root.after and is about to end not counted;
\* a request made while is_generating is True starts no worker, and
\* is_generating becomes False only in the completion or error callback of the
\* worker started last.
C26_AtMostOneGenerating ==
  /\ [](Cardinality(RunningWorkers) <= 1)
  /\ [][is_generating => StartsNoWorker]_vars
  /\ [][(is_generating /\ ~is_generating') => RunsCallbackOfLastWorker]_vars

\* A preview was asked for while a worker was generating, and was refused.
C26_Witness ==
  /\ is_generating
  /\ message = "already_generating"
  /\ Cardinality(RunningWorkers) = 1

\* A second thread was started while the first had not ended yet.
C26_TwoThreads == Cardinality(AliveWorkers) = 2

IsPrefix(a, b) == Len(a) <= Len(b) /\ a = SubSeq(b, 1, Len(a))

\* The first extraction function main calls for a file that is not an OCR run.
PrimaryStrategy ==
  IF is_text_file THEN "load_vocab_from_text"
  ELSE IF args_simple_parse THEN "parse_vocab_simple"
  ELSE "extract_vocab_from_pdf"

\* Without --ocr: the primary function, then parse_vocab_simple on the
\* extracted text, then the OCR table extraction.
StrategyOrder ==
  <<PrimaryStrategy, "parse_vocab_simple", "extract_vocab_with_ocr_table">>

\* While a later function is being tried the list is empty (the functions
\* before it returned none), and OCR is tried only when it is available.
LaterOnlyAfterEmpty ==
  /\ cli_pc \in {"in_cascade", "in_fallback"} => cli_vocab_list = <<>>
  /\ Len(attempts) = 3 => has_ocr

\* C27: main tries the extraction functions in a fixed order, a later one only
\* if every earlier one returned the empty list: without --ocr the primary
\* parser (whole text, or parse_vocab_simple with --simple-parse, or the text
\* loader for .txt/.csv), then parse_vocab_simple on the extracted text, then
\* the OCR table extraction, this one only when OCR is available; with --ocr
\* only the OCR table extraction, and nothing after an empty result.
C27_StrategyOrder ==
  cli_pc # "idle" =>
     /\ args_ocr => IsPrefix(attempts, <<"extract_vocab_with_ocr_table">>)
     /\ ~args_ocr => IsPrefix(attempts, StrategyOrder) /\ LaterOnlyAfterEmpty

\* C27 as it holds: the same, except that a .txt/.csv file is given to the
\* text loader also with --ocr; with --ocr that is the only function tried
\* for such a file, and the OCR table extraction the only one for a PDF.
C27_StrategyOrderByFileType ==
  cli_pc # "idle" =>
     /\ args_ocr =>
          IsPrefix(attempts, IF is_text_file THEN <<"load_vocab_from_text">>
                             ELSE <<"extract_vocab_with_ocr_table">>)
     /\ ~args_ocr => IsPrefix(attempts, StrategyOrder) /\ LaterOnlyAfterEmpty

\* All three functions were tried and the OCR table extraction returned entries.
C27_Witness ==
  /\ cli_pc = "after_fallback"
  /\ attempts = <<"extract_vocab_from_pdf", "parse_vocab_simple", "extract_vocab_with_ocr_table">>
  /\ cli_vocab_list # <<>>

\* --ocr with a text file: the text loader was called.
C27_OcrOptionWithTextFile ==
  /\ args_ocr
  /\ is_text_file
  /\ attempts = <<"load_vocab_from_text">>


\* main has called an extraction function and holds no entry at its end:
\* the list came back empty, or the function raised.
ExtractionFailed == cli_pc = "exited" /\ attempts # <<>> /\ cli_vocab_list = <<>>

\* main is past the test of lines 146-152.
PastExtraction == cli_pc \in {"extracted", "config", "audio_returned"}

\* C28: main calls generate_vocab_audio only with a list that is not empty
\* and without --preview, and at most once; an extraction that ends without
\* an entry, by an empty list or by an exception, ends the run with exit
\* code 1 and no call of generate_vocab_audio; exit code 0 is returned only
\* for --list-voices, for --preview with a list that is not empty, or when
\* generate_vocab_audio returned True.
C28_AudioAndExitCodes ==
  /\ audio_calls > 0 => cli_vocab_list # <<>> /\ ~args_preview /\ audio_calls = 1
  /\ PastExtraction => cli_vocab_list # <<>>
  /\ ExtractionFailed => exit_code = Some(1) /\ audio_calls = 0
  /\ exit_code = Some(0) =>
       \/ args_list_voices /\ attempts = <<>>
       \/ args_preview /\ cli_vocab_list # <<>> /\ audio_calls = 0
       \/ main_success = Some(TRUE)

\* The audio was made and main returned 0.
C28_Witness ==
  /\ exit_code = Some(0)
  /\ audio_calls = 1
  /\ main_success = Some(TRUE)
  /\ Len(cli_vocab_list) > 0

\* An exception of the second method ended the run with 1.
C28_ExceptionExit ==
  /\ ExtractionFailed
  /\ pc = "raised"
  /\ Len(attempts) = 2
  /\ exit_code = Some(1)

\* --preview ended the run with 0 and without audio.
C28_PreviewExit ==
  /\ cli_pc = "exited" /\ args_preview /\ exit_code = Some(0)
  /\ ~args_list_voices /\ audio_calls = 0

\* generate_vocab_audio returned False and main returned 1.
C28_AudioFailed == main_success = Some(FALSE) /\ exit_code = Some(1)


\* The segments of one entry by the count that is stated: 2*english_repeat
\* + 2*meaning_repeat + 1.
StatedPerEntry == 2 * english_repeat + 2 * meaning_repeat + 1

\* A repeat count as range() takes it: a number below 0 repeats nothing.
Passes(repeat) == IF repeat < 0 THEN 0 ELSE repeat
PerEntry == 2 * Passes(english_repeat) + 2 * Passes(meaning_repeat) + 1

\* The file at place p (from 1) of a list made of one block per entry: the
\* word and the silence in turn, words times, then the meaning and the
\* silence in turn, meanings times, then the silence between words.
FileOfBlocks(p, words, meanings) ==
  LET block == 2 * words + 2 * meanings + 1
      entry == (p - 1) \div block
      place == (p - 1) % block
  IN IF place = block - 1 THEN silence_between_words
     ELSE IF place % 2 = 1 THEN silence_between_repeat
     ELSE IF place < 2 * words THEN eng_file(entry)
     ELSE kor_file(entry)

FileAt(p) == FileOfBlocks(p, Passes(english_repeat), Passes(meaning_repeat))

\* The files of entries keep the order of the entries.
EntriesInOrder(files) ==
  \A p, q \in 1..Len(files) :
     (p < q /\ Len(files[p]) = 2 /\ Len(files[q]) = 2) => files[p][2] <= files[q][2]

\* C29 as stated: the list given to concatenate_audio_files has
\* n*(2*english_repeat + 2*meaning_repeat + 1) files, which are, entry by
\* entry, english_repeat times the word and the silence, meaning_repeat
\* times the meaning and the silence, and the silence between words; no
\* file of a later entry stands before a file of an earlier one.
C29_StatedSequence ==
  file_list # None =>
    /\ Len(file_list[1]) = total * StatedPerEntry
    /\ \A p \in 1..Len(file_list[1]) :
          file_list[1][p] = FileOfBlocks(p, english_repeat, meaning_repeat)
    /\ EntriesInOrder(file_list[1])

\* C29: the list given to concatenate_audio_files holds, for each entry in
\* list order, the word file and the repeat silence english_repeat times,
\* the meaning file and the repeat silence meaning_repeat times, then the
\* silence between words, a repeat count below 0 counting as 0; so it has
\* n*(2*max(english_repeat,0) + 2*max(meaning_repeat,0) + 1) files, and no
\* file of a later entry stands before a file of an earlier one.  The list
\* has this form for the entries done so far at every pass of the loop.
C29_SegmentSequence ==
  /\ tts_pc \in {"loop", "returned"} =>
       /\ Len(audio_segments) = tts_i * PerEntry
       /\ \A p \in 1..Len(audio_segments) : audio_segments[p] = FileAt(p)
       /\ EntriesInOrder(audio_segments)
  /\ file_list # None =>
       /\ file_list[1] = audio_segments
       /\ Len(file_list[1]) = total * PerEntry

\* Two entries, the word twice and the meaning once.
C29_Witness ==
  /\ file_list # None
  /\ total = 2 /\ english_repeat = 2 /\ meaning_repeat = 1
  /\ file_list[1] = << eng_file(0), silence_between_repeat,
                       eng_file(0), silence_between_repeat,
                       kor_file(0), silence_between_repeat, silence_between_words,
                       eng_file(1), silence_between_repeat,
                       eng_file(1), silence_between_repeat,
                       kor_file(1), silence_between_repeat, silence_between_words >>

\* --repeat -1: three files for one entry, where the stated count is 1.
C29_NegativeRepeat ==
  /\ file_list # None
  /\ total = 1 /\ english_repeat = -1 /\ meaning_repeat = 1
  /\ Len(file_list[1]) = 3
  /\ StatedPerEntry = 1


\* A response after which the next model is to be asked: an error object
\* with code 404, a body or a text that is no JSON, no candidates.
AsksNext(r) ==
  \/ r.kind = "error" /\ r.code = 404
  \/ r.kind = "body_not_json"
  \/ r.kind = "text" /\ r.data = None
  \/ r.kind = "no_candidates"

\* An error object of the service with another code than 404.
OtherApiError(r) == r.kind = "error" /\ r.code # 404

\* The function has ended and the last model was asked in vain.
AllAskedInVain ==
  /\ gem_pc # "loop"
  /\ Len(responses) = Len(models_to_try)
  /\ AsksNext(responses[Len(responses)])

\* C30: the models are asked in the order of models_to_try; a later model is
\* asked only if every earlier one ended with a 404 error, with a body or a
\* text that is no JSON, or without candidates; any other error of the
\* service is raised at once, no further model being asked; the list
\* returned is made of the first text that is JSON; when every model was
\* asked in vain the last error recorded is raised, and the empty list is
\* returned if there is none.
C30_ModelOrder ==
  /\ IsPrefix(requested, models_to_try)
  /\ Len(responses) = Len(requested)
  /\ \A k \in 1..(Len(responses) - 1) : AsksNext(responses[k])
  /\ \A k \in 1..Len(responses) :
       OtherApiError(responses[k]) =>
         /\ k = Len(responses)
         /\ gem_pc = "raised"
         /\ gem_raised = Some(ApiErrorText(responses[k].code, responses[k].message))
  /\ (gem_return # None /\ ~AllAskedInVain) =>
       /\ responses[Len(responses)].kind = "text"
       /\ responses[Len(responses)].data # None
  /\ AllAskedInVain =>
       IF last_error # None THEN gem_raised = last_error /\ gem_return = None
       ELSE gem_return = Some(<<>>) /\ gem_raised = None

\* The first model answers with an error of code 400 whose message holds
\* "404", and the second model is asked.
C30_ErrorSkipped ==
  /\ Len(requested) >= 2
  /\ OtherApiError(responses[1])
  /\ Contains404(ApiErrorText(responses[1].code, responses[1].message))

\* What holds: a later model is asked also after an exception whose text
\* holds "404", and an exception is raised at once only if its text does not.
C30_OrderBySubstring ==
  /\ IsPrefix(requested, models_to_try)
  /\ \A k \in 1..(Len(responses) - 1) :
       \/ AsksNext(responses[k])
       \/ OnePass(responses[k]).ends = "continue"
  /\ gem_pc = "raised" => gem_raised = last_error /\ last_error # None
  /\ (gem_pc = "raised" /\ model_idx < Len(models_to_try)) => ~Contains404(gem_raised[1])

====
